---- MODULE Spec2Model ----
(***************************************************************************)
(* AI Party Studio (andrehfp/ai-party-decorations).                        *)
(*                                                                         *)
(* A model of the generation pipeline: the browser client (page.tsx) that  *)
(* selects decoration types and reassembles the SSE stream, the            *)
(* POST /api/generate route (streaming and non-streaming), and the         *)
(* validation performed by the project and iteration routes.               *)
(*                                                                         *)
(* Conventions.  JavaScript arrays are sequences; an event's `index` keeps *)
(* the JavaScript (0-based) value, so position p of a sequence carries     *)
(* index p - 1.  A text is a sequence of one-character strings; an error   *)
(* message is a sequence of words, and String.includes is containment of a *)
(* contiguous run of words.                                                *)
(***************************************************************************)
EXTENDS Integers, Sequences, FiniteSets, TLC

VARIABLES
    \* ---- the caller's request to POST /api/generate, and the environment
    request,            \* the JSON body in flight, or NoRequest
    apiKey,             \* TRUE iff OPENROUTER_API_KEY is set
    \* ---- POST /api/generate (route.ts)
    serverPc,           \* "idle" | "awaiting" (Promise.all pending) | "responded"
    selectedTypes,      \* decorationTypes.slice(0, MAX_IMAGE_COUNT)
    task,               \* per position: the async callback of selectedTypes.map
    settleOrder,        \* positions in the order their callbacks settled
    httpRequests,       \* fetches issued to OPENROUTER_API_URL, as positions
    sseOut,             \* chunks enqueued on the SSE controller, in order
    controllerClosed,   \* controller.close() has been called
    response,           \* the HTTP response head/body of the route, or NoResponse
    \* ---- the browser client (Home component)
    selectedDecorations,
    sizeChoice,
    theme,
    cpc,                \* position of handleGenerate
    iterations,         \* activeProject.iterations in the `projects` state
    imageMap,           \* handleStreamingResponse: Map index -> image record
    errorMap,           \* handleStreamingResponse: Map index -> error record
    delivered,          \* number of SSE chunks of sseOut the reader has consumed
    saveRequests,       \* bodies POSTed to /api/projects/{id}/iterations
    clientError,        \* the `error` state set by handleGenerate's catch
    detailsPc,          \* position of fetchProjectDetails: "none" | "pending" | "done"
    \* ---- the SQLite database (db.ts) and the routes under /api/projects
    projectsTable,      \* rows of `projects`, in rowid order
    iterationsTable,    \* rows of `iterations`, in rowid order
    imagesTable,        \* rows of `images`, in rowid order
    nextId,             \* number of the next crypto.randomUUID() result
    clock,              \* the time new Date() reads
    reply,              \* the last response of a project route
    \* ---- pure-function harnesses
    probe               \* input/outcome of the function under test

serverVars == <<serverPc, selectedTypes, task, settleOrder, httpRequests,
                sseOut, controllerClosed, response>>
clientVars == <<selectedDecorations, sizeChoice, theme, cpc, iterations,
                imageMap, errorMap, delivered, saveRequests, clientError,
                detailsPc>>
dbVars == <<projectsTable, iterationsTable, imagesTable, nextId, clock, reply>>
vars == <<request, apiKey, serverVars, clientVars, dbVars, probe>>

----------------------------------------------------------------------------
(* Bounds of the model. *)

\* images one upstream stream may deliver
MaxImages == 1
\* decoration types a modelled caller may name in one streaming request
MaxTypes == 2
\* length of the decorationTypes array in the selection harness
MaxRequested == 8

----------------------------------------------------------------------------
(* Generic helpers. *)

Range(s) == {s[i] : i \in DOMAIN s}

\* Array.prototype.filter with the predicate given as the set of kept values
SeqFilter(s, keep) == SelectSeq(s, LAMBDA x : x \in keep)

\* Array.prototype.slice(0, n)
SliceTo(s, n) == IF Len(s) <= n THEN s ELSE SubSeq(s, 1, n)

\* sequences over S of length lo..hi
SeqsOf(S, lo, hi) == UNION {[1..n -> S] : n \in lo..hi}

\* sequences over S without repetition
NoDup(s) == \A i, j \in DOMAIN s : i # j => s[i] # s[j]

\* String.prototype.includes, on word sequences
Includes(msg, kw) ==
    \E i \in 0..(Len(msg) - Len(kw)) :
        \A j \in 1..Len(kw) : msg[i + j] = kw[j]

----------------------------------------------------------------------------
(* Program constants. *)

DEFAULT_DECORATIONS ==
    << "Cake topper", "Cupcake toppers", "Welcome banner", "Favor tags",
       "Table centerpiece", "Photo booth prop" >>

ALLOWED_DECORATION_TYPES ==
    << "Cake topper", "Banner", "Cup/bottle label", "Favor tag",
       "Cupcake topper", "Food label", "Party sign", "Centerpiece",
       "Invitation", "Thank you card", "Sticker", "Backdrop", "Garland",
       "Photo booth prop", "Gift tag", "Cupcake toppers", "Welcome banner",
       "Favor tags", "Table centerpiece" >>

MAX_IMAGE_COUNT == 6

\* the keys of DECORATION_PROMPTS
DECORATION_PROMPTS ==
    { "Cake topper", "Cupcake toppers", "Welcome banner", "Favor tags",
      "Photo booth props", "Table centerpiece", "Cup wraps", "Sticker sheet" }

\* the client's selectable decoration types
DECORATION_OPTIONS ==
    << "Cake topper", "Cupcake toppers", "Welcome banner", "Favor tags",
       "Photo booth props", "Table centerpiece", "Cup wraps", "Sticker sheet" >>

----------------------------------------------------------------------------
(* JSON values and texts. *)

Str(chars) == [t |-> "string", v |-> chars]
Undefined == [t |-> "undefined", v |-> <<>>]
Num == [t |-> "number", v |-> <<>>]

IsWhite(c) == c = " "

\* String.prototype.trim
Trim(s) ==
    IF \A i \in DOMAIN s : IsWhite(s[i]) THEN <<>>
    ELSE SubSeq(s,
                CHOOSE i \in DOMAIN s :
                    ~IsWhite(s[i]) /\ \A j \in 1..(i - 1) : IsWhite(s[j]),
                CHOOSE i \in DOMAIN s :
                    ~IsWhite(s[i]) /\ \A j \in (i + 1)..Len(s) : IsWhite(s[j]))

\* .replace(/[<>]/g, "")
RemoveAngle(s) == SelectSeq(s, LAMBDA c : c \notin {"<", ">"})

sanitizeText(input, maxLength) ==
    IF input.t # "string" THEN <<>>
    ELSE RemoveAngle(SliceTo(Trim(input.v), maxLength))

\* the outcome of a validator: the value it returns, or the Error it throws
Ok(value) == [ok |-> TRUE, value |-> value, err |-> <<>>]
Throw(msg) == [ok |-> FALSE, value |-> <<>>, err |-> msg]

THEME_MAX == 200

validateTheme(th) ==
    IF th.t # "string" \/ Trim(th.v) = <<>>
    THEN Throw(<<"Theme", "is", "required">>)
    ELSE IF sanitizeText(th, THEME_MAX) = <<>>
         THEN Throw(<<"Theme", "contains", "only", "invalid", "characters">>)
         ELSE Ok(sanitizeText(th, THEME_MAX))

DETAILS_MAX == 1000

validateDetails(d) ==
    IF d.t = "undefined" \/ d.t = "null" \/ (d.t = "string" /\ d.v = <<>>)
    THEN Ok(<<>>)
    ELSE IF d.t # "string"
         THEN Throw(<<"Details", "must", "be", "a", "string">>)
         ELSE Ok(sanitizeText(d, DETAILS_MAX))

NAME_MAX == 100

validateName(name) ==
    IF name.t # "string" \/ Trim(name.v) = <<>>
    THEN Throw(<<"Name", "is", "required", "and", "must", "be", "a",
                 "non-empty", "string">>)
    ELSE IF Len(sanitizeText(name, NAME_MAX)) = 0
         THEN Throw(<<"Name", "contains", "only", "invalid", "characters">>)
         ELSE IF Len(sanitizeText(name, NAME_MAX)) > NAME_MAX
              THEN Throw(<<"Name", "is", "too", "long", "(maximum", "100",
                           "characters)">>)
              ELSE Ok(sanitizeText(name, NAME_MAX))

HexDigits ==
    {"0", "1", "2", "3", "4", "5", "6", "7", "8", "9",
     "a", "b", "c", "d", "e", "f", "A", "B", "C", "D", "E", "F"}

\* /^[0-9a-f]{8}-[0-9a-f]{4}-4[0-9a-f]{3}-[89ab][0-9a-f]{3}-[0-9a-f]{12}$/i
UuidRegex(s) ==
    /\ Len(s) = 36
    /\ \A i \in 1..36 :
          IF i \in {9, 14, 19, 24} THEN s[i] = "-"
          ELSE IF i = 15 THEN s[i] = "4"
          ELSE IF i = 20 THEN s[i] \in {"8", "9", "a", "b", "A", "B"}
          ELSE s[i] \in HexDigits

validateUUID(id) ==
    IF id.t # "string" THEN Throw(<<"ID", "must", "be", "a", "string">>)
    ELSE IF ~UuidRegex(id.v) THEN Throw(<<"Invalid", "ID", "format">>)
    ELSE Ok(id.v)

\* an option value: a string compared as a whole
Opt(s) == [t |-> "string", v |-> <<s>>]

IsBlank(x) == x.t = "undefined" \/ x.t = "null" \/ (x.t = "string" /\ x.v = <<>>)

validateSize(size) ==
    IF IsBlank(size) THEN Ok(<<>>)
    ELSE IF size.t # "string" THEN Throw(<<"Size", "must", "be", "a", "string">>)
    ELSE IF size \notin {Opt("small"), Opt("medium"), Opt("large")}
         THEN Throw(<<"Invalid", "size", "option">>)
         ELSE Ok(size.v)

validateAspectRatio(ratio) ==
    IF IsBlank(ratio) THEN Ok(<<>>)
    ELSE IF ratio.t # "string"
         THEN Throw(<<"Aspect", "ratio", "must", "be", "a", "string">>)
    ELSE IF ratio \notin {Opt("1:1"), Opt("16:9"), Opt("4:3"), Opt("3:2"), Opt("2:3")}
         THEN Throw(<<"Invalid", "aspect", "ratio">>)
         ELSE Ok(ratio.v)

----------------------------------------------------------------------------
(* POST /api/generate: selection of the decoration types. *)

\* (mutation of SelectTypes: the slice to MAX_IMAGE_COUNT is lost)
SelectTypesUnsliced(requested) ==
    LET given == IF Len(requested) > 0 THEN requested ELSE DEFAULT_DECORATIONS
        kept == SeqFilter(given, Range(ALLOWED_DECORATION_TYPES))
    IN  IF Len(kept) = 0 THEN DEFAULT_DECORATIONS ELSE kept

\* route.ts 112-127: default, whitelist filter, default again, slice
SelectTypes(requested) ==
    LET given == IF Len(requested) > 0 THEN requested ELSE DEFAULT_DECORATIONS
        kept == SeqFilter(given, Range(ALLOWED_DECORATION_TYPES))
        types == IF Len(kept) = 0 THEN DEFAULT_DECORATIONS ELSE kept
    IN  SliceTo(types, MAX_IMAGE_COUNT)

\* buildDecorationPrompt throws "Unknown decoration type" without a template
HasPrompt(type) == type \in DECORATION_PROMPTS

buildDecorationPrompt(type) == [promptFor |-> type]

NoPrompt == [promptFor |-> ""]

UnknownTypeError(type) == <<"Unknown", "decoration", "type:", type>>

ApiKeyError ==
    <<"OPENROUTER_API_KEY", "is", "not", "configured.", "Add", "it", "to",
      "your", "environment", "variables.">>

\* the message of a failed upstream call (status line or provider message)
UpstreamError == <<"OpenRouter", "image", "generation", "failed">>

NoImageError(type) == <<"No", "image", "received", "for", type>>

\* the n-th image the provider generates for the prompt of position p
Image(type, p, n) == [of |-> type, pos |-> p, n |-> n]

EmptyImage == [of |-> "", pos |-> 0, n |-> 0]

\* The catch of POST: validation errors answer 400, the others 500
GenerateErrorStatus(msg) ==
    IF \/ Includes(msg, <<"required">>)
       \/ Includes(msg, <<"invalid">>)
       \/ Includes(msg, <<"Invalid">>)
       \/ Includes(msg, <<"Unsupported">>)
       \/ Includes(msg, <<"too", "long">>)
    THEN 400 ELSE 500

----------------------------------------------------------------------------
(* SSE chunks written by the route: data: {...}\n\n or data: [DONE]\n\n.   *)
(* An absent key is "" / <<>> / -1, which the client's truthiness and      *)
(* typeof tests cannot tell from a missing one.                            *)

NoIndex == -1

ImageChunk(image, type, index, prompt) ==
    [done |-> FALSE, image |-> image, error |-> <<>>,
     decorationType |-> type, index |-> index, prompt |-> prompt]

ErrorChunk(msg, type, index) ==
    [done |-> FALSE, image |-> EmptyImage, error |-> msg,
     decorationType |-> type, index |-> index, prompt |-> NoPrompt]

\* the outer catch of start(): {error} alone
StreamErrorChunk(msg) == ErrorChunk(msg, "", NoIndex)

DoneChunk ==
    [done |-> TRUE, image |-> EmptyImage, error |-> <<>>,
     decorationType |-> "", index |-> NoIndex, prompt |-> NoPrompt]

IsImageChunk(c) == ~c.done /\ c.image # EmptyImage
IsErrorChunk(c) == ~c.done /\ c.error # <<>>

----------------------------------------------------------------------------
(* POST /api/generate: the request handler and its parallel tasks. *)

NoRequest == [present |-> FALSE]
NoResponse ==
    [status |-> 0, kind |-> "none", error |-> <<>>,
     images |-> <<>>, decorationTypes |-> <<>>, prompts |-> <<>>]

\* a callback of selectedTypes.map
Task(st, imgs, result) == [st |-> st, imgs |-> imgs, result |-> result]

NoResult == [image |-> EmptyImage, decorationType |-> "", prompt |-> NoPrompt]

Positions == DOMAIN task

AllFulfilled(t) == \A p \in DOMAIN t : t[p].st = "fulfilled"
SomeRejected(t) == \E p \in DOMAIN t : t[p].st = "rejected"

\* NextResponse.json({ error }, { status })
\* new Error(text), as setError keeps it
ErrorMessage(text) == [parts |-> <<>>, text |-> text]

\* setError(null)
NoClientError == [parts |-> <<>>, text |-> <<>>]

GenericGenerateError ==
    <<"An", "error", "occurred", "while", "generating", "decorations">>

ErrorResponse(msg) ==
    [status |-> GenerateErrorStatus(msg), kind |-> "error",
     error |-> IF GenerateErrorStatus(msg) = 400 THEN msg
               ELSE GenericGenerateError,
     images |-> <<>>, decorationTypes |-> <<>>, prompts |-> <<>>]

\* new Response(stream, { headers: text/event-stream })
StreamResponse ==
    [status |-> 200, kind |-> "sse", error |-> <<>>,
     images |-> <<>>, decorationTypes |-> <<>>, prompts |-> <<>>]

\* (mutation of PromiseAllResults: results pushed as the callbacks complete)
ResultsAsCompleted(t) ==
    LET last == CHOOSE p \in DOMAIN t : p \notin Range(settleOrder)
        order == Append(settleOrder, last)
    IN  [i \in DOMAIN t |-> t[order[i]].result]

\* await Promise.all(...): the results in the order of the input array
PromiseAllResults(t) == [p \in DOMAIN t |-> t[p].result]

\* NextResponse.json({ images, decorationTypes, prompts })
JsonResponse(results) ==
    [status |-> 200, kind |-> "json", error |-> <<>>,
     images |-> [p \in DOMAIN results |-> results[p].image],
     decorationTypes |-> [p \in DOMAIN results |-> results[p].decorationType],
     prompts |-> [p \in DOMAIN results |-> results[p].prompt]]

\* The state of each callback when the synchronous part of the map and the
\* microtasks it queued have run: a type without a template has rejected,
\* a missing API key has failed the call before any fetch, the others wait
\* for their fetch.
StartStreamTask(type) ==
    IF ~HasPrompt(type) THEN Task("rejected", 0, NoResult)
    ELSE IF ~apiKey THEN Task("fulfilled", 0, NoResult)
    ELSE Task("fetching", 0, NoResult)

StartJsonTask(type) ==
    IF ~HasPrompt(type) \/ ~apiKey THEN Task("rejected", 0, NoResult)
    ELSE Task("fetching", 0, NoResult)

\* the positions whose callback issued its fetch to the provider
Fetching(t) == SelectSeq([p \in DOMAIN t |-> p], LAMBDA p : t[p].st = "fetching")

\* the error chunks of the callbacks that failed for the missing API key
RECURSIVE KeyErrorChunks(_, _, _)
KeyErrorChunks(types, t, p) ==
    IF p > Len(types) THEN <<>>
    ELSE (IF t[p].st = "fulfilled"
          THEN <<ErrorChunk(ApiKeyError, types[p], p - 1)>> ELSE <<>>)
         \o KeyErrorChunks(types, t, p + 1)

\* the first type of the list without a prompt template
FirstUnknown(types) ==
    types[CHOOSE p \in DOMAIN types :
            /\ ~HasPrompt(types[p])
            /\ \A q \in 1..(p - 1) : HasPrompt(types[q])]

\* What start() leaves on the controller once Promise.all has settled:
\* [DONE] and close when every callback fulfilled, the outer catch's
\* {error} and close when one rejected, nothing while one is pending.
StreamSettle(t, out, msg) ==
    IF SomeRejected(t) THEN out \o <<StreamErrorChunk(msg)>>
    ELSE IF AllFulfilled(t) THEN out \o <<DoneChunk>>
    ELSE out

Settled(t) == SomeRejected(t) \/ AllFulfilled(t)

\* POST with body.stream: handleStreamingGeneration up to its first pending await
PostStream(body, th) ==
    LET types == SelectTypes(body.decorationTypes)
        t == [p \in DOMAIN types |-> StartStreamTask(types[p])]
        out == KeyErrorChunks(types, t, 1)
        msg == IF SomeRejected(t) THEN UnknownTypeError(FirstUnknown(types))
               ELSE <<>>
    IN  /\ selectedTypes' = types
        /\ task' = t
        /\ httpRequests' = Fetching(t)
        /\ settleOrder' = SelectSeq([p \in DOMAIN t |-> p],
                                    LAMBDA p : t[p].st # "fetching")
        /\ sseOut' = StreamSettle(t, out, msg)
        /\ controllerClosed' = Settled(t)
        /\ serverPc' = IF Settled(t) THEN "finished" ELSE "awaiting"
        /\ response' = StreamResponse

\* POST without body.stream, up to its first pending await
PostJson(body, th) ==
    LET types == SelectTypes(body.decorationTypes)
        t == [p \in DOMAIN types |-> StartJsonTask(types[p])]
        msg == IF \E p \in DOMAIN types : ~HasPrompt(types[p])
               THEN UnknownTypeError(FirstUnknown(types))
               ELSE ApiKeyError
    IN  /\ selectedTypes' = types
        /\ task' = t
        /\ httpRequests' = Fetching(t)
        /\ settleOrder' = SelectSeq([p \in DOMAIN t |-> p],
                                    LAMBDA p : t[p].st # "fetching")
        /\ serverPc' = IF SomeRejected(t) THEN "finished" ELSE "awaiting"
        /\ response' = IF SomeRejected(t) THEN ErrorResponse(msg) ELSE NoResponse
        /\ UNCHANGED <<sseOut, controllerClosed>>

\* export async function POST(request)
POST ==
    /\ request # NoRequest
    /\ serverPc = "idle"
    /\ LET th == validateTheme(request.theme)
           de == validateDetails(request.details)
       IN  IF ~th.ok \/ ~de.ok
           THEN /\ response' = ErrorResponse(IF ~th.ok THEN th.err ELSE de.err)
                /\ serverPc' = "finished"
                /\ UNCHANGED <<selectedTypes, task, settleOrder, httpRequests,
                               sseOut, controllerClosed>>
           ELSE IF request.stream
                THEN PostStream(request, th.value)
                ELSE PostJson(request, th.value)
    /\ UNCHANGED <<request, apiKey, clientVars, dbVars, probe>>

----------------------------------------------------------------------------
(* The streaming callbacks of handleStreamingGeneration (route.ts 239-292). *)

\* A callback enqueues `chunks` and moves to `next`.  On a closed
\* controller enqueue throws; the throw lands in the callback's catch,
\* whose own enqueue throws again, and the callback rejects.
StreamStep(p, chunks, next) ==
    IF chunks # <<>> /\ controllerClosed
    THEN /\ task' = [task EXCEPT ![p] = Task("rejected", @.imgs, NoResult)]
         /\ settleOrder' = Append(settleOrder, p)
         /\ UNCHANGED <<sseOut, controllerClosed, serverPc>>
    ELSE LET t == [task EXCEPT ![p] = next]
             ended == next.st = "fulfilled"
             settles == serverPc = "awaiting" /\ Settled(t)
         IN  /\ task' = t
             /\ settleOrder' = IF ended THEN Append(settleOrder, p)
                               ELSE settleOrder
             /\ sseOut' = IF settles THEN StreamSettle(t, sseOut \o chunks, <<>>)
                          ELSE sseOut \o chunks
             /\ controllerClosed' = (controllerClosed \/ settles)
             /\ serverPc' = IF settles THEN "finished" ELSE serverPc

StreamFrame ==
    UNCHANGED <<request, apiKey, selectedTypes, httpRequests, response,
                clientVars, dbVars, probe>>

\* streamImageGeneration throws: the response is not ok, or fetch failed
FetchFail(p) ==
    /\ request.stream
    /\ task[p].st = "fetching"
    /\ StreamStep(p, <<ErrorChunk(UpstreamError, selectedTypes[p], p - 1)>>,
                  Task("fulfilled", 0, NoResult))
    /\ StreamFrame

\* streamImageGeneration returns the image stream
FetchOk(p) ==
    /\ request.stream
    /\ task[p].st = "fetching"
    /\ StreamStep(p, <<>>, Task("reading", 0, NoResult))
    /\ StreamFrame

\* reader.read() yields a chunk with an image
ReadImage(p) ==
    /\ request.stream
    /\ task[p].st = "reading"
    /\ task[p].imgs < MaxImages
    /\ StreamStep(p,
          <<ImageChunk(Image(selectedTypes[p], p, task[p].imgs + 1),
                       selectedTypes[p], p - 1,
                       buildDecorationPrompt(selectedTypes[p]))>>,
          Task("reading", task[p].imgs + 1, NoResult))
    /\ StreamFrame

\* reader.read() yields done
ReadEnd(p) ==
    /\ request.stream
    /\ task[p].st = "reading"
    /\ StreamStep(p,
          IF task[p].imgs = 0
          THEN <<ErrorChunk(NoImageError(selectedTypes[p]), selectedTypes[p], p - 1)>>
          ELSE <<>>,
          Task("fulfilled", task[p].imgs, NoResult))
    /\ StreamFrame

\* reader.read() rejects: the gateway called controller.error
ReadError(p) ==
    /\ request.stream
    /\ task[p].st = "reading"
    /\ StreamStep(p, <<ErrorChunk(UpstreamError, selectedTypes[p], p - 1)>>,
                  Task("fulfilled", task[p].imgs, NoResult))
    /\ StreamFrame

----------------------------------------------------------------------------
(* The non-streaming callbacks of POST (route.ts 160-199). *)

JsonStep(p, next) ==
    LET t == [task EXCEPT ![p] = next]
        settles == serverPc = "awaiting" /\ Settled(t)
    IN  /\ task' = t
        /\ settleOrder' = Append(settleOrder, p)
        /\ serverPc' = IF settles THEN "finished" ELSE serverPc
        /\ response' = IF ~settles THEN response
                       ELSE IF SomeRejected(t) THEN ErrorResponse(UpstreamError)
                       ELSE JsonResponse(PromiseAllResults(t))
        /\ UNCHANGED <<request, apiKey, selectedTypes, httpRequests, sseOut,
                       controllerClosed, clientVars, dbVars, probe>>

\* generateImage resolves and fileToDataUrl returns the data URL
GenerateOk(p) ==
    /\ ~request.stream
    /\ task[p].st = "fetching"
    /\ JsonStep(p, Task("fulfilled", 1,
                        [image |-> Image(selectedTypes[p], p, 1),
                         decorationType |-> selectedTypes[p],
                         prompt |-> buildDecorationPrompt(selectedTypes[p])]))

\* generateImage rejects, or fileToDataUrl throws
GenerateFail(p) ==
    /\ ~request.stream
    /\ task[p].st = "fetching"
    /\ JsonStep(p, Task("rejected", 0, NoResult))

----------------------------------------------------------------------------
(* The server alone, driven by any caller of the API. *)

\* decoration types a caller names: with and without a template, in and out
\* of the whitelist
ApiTypes == {"Cake topper", "Favor tags", "Banner", "Cup wraps"}

ApiThemes == {Str(<<"p">>), Str(<<"<">>)}

ApiRequests ==
    [present : {TRUE},
     theme : ApiThemes,
     details : {Undefined, Num},
     decorationTypes : SeqsOf(ApiTypes, 0, MaxTypes),
     stream : BOOLEAN]

ClientAbsent ==
    /\ selectedDecorations = <<>>
    /\ sizeChoice = ""
    /\ theme = <<>>
    /\ cpc = "absent"
    /\ iterations = <<>>
    /\ imageMap = <<>>
    /\ errorMap = <<>>
    /\ delivered = 0
    /\ saveRequests = <<>>
    /\ clientError = NoClientError
    /\ detailsPc = "none"

\* no project route has answered yet
NoReply == [endpoint |-> "none", status |-> 0]

\* the database file has just been created by db.ts and is empty
DbIdle ==
    /\ projectsTable = <<>>
    /\ iterationsTable = <<>>
    /\ imagesTable = <<>>
    /\ nextId = 1
    /\ clock = 1
    /\ reply = NoReply

ServerIdle ==
    /\ serverPc = "idle"
    /\ selectedTypes = <<>>
    /\ task = <<>>
    /\ settleOrder = <<>>
    /\ httpRequests = <<>>
    /\ sseOut = <<>>
    /\ controllerClosed = FALSE
    /\ response = NoResponse

InitServer ==
    /\ request \in ApiRequests
    /\ apiKey \in BOOLEAN
    /\ ServerIdle
    /\ DbIdle
    /\ ClientAbsent
    /\ probe = <<>>

ServerNext ==
    \/ POST
    \/ \E p \in Positions : FetchFail(p)
    \/ \E p \in Positions : FetchOk(p)
    \/ \E p \in Positions : ReadImage(p)
    \/ \E p \in Positions : ReadEnd(p)
    \/ \E p \in Positions : ReadError(p)
    \/ \E p \in Positions : GenerateOk(p)
    \/ \E p \in Positions : GenerateFail(p)

SpecServer == InitServer /\ [][ServerNext]_vars

\* The synchronous part of POST alone, over long decorationTypes arrays.
SelectTypesUniverse == {"Cake topper", "Banner", "Cup wraps"}

InitSelect ==
    /\ request \in [present : {TRUE},
                    theme : {Str(<<"p">>)},
                    details : {Undefined},
                    decorationTypes : SeqsOf(SelectTypesUniverse, 0, MaxRequested),
                    stream : BOOLEAN]
    /\ apiKey = TRUE
    /\ ServerIdle
    /\ DbIdle
    /\ ClientAbsent
    /\ probe = <<>>

SpecSelect == InitSelect /\ [][POST]_vars

----------------------------------------------------------------------------
(* Properties of POST /api/generate. *)

\* the request passed validateTheme and validateDetails: the callbacks exist
Validated == task # <<>>

StreamClosed == request # NoRequest /\ request.stream /\ controllerClosed

\* C1: the SSE body of a validated streaming request ends with exactly one
\* [DONE] chunk, which is the last chunk written before the close.
C1_EndsWithOneDone ==
    StreamClosed =>
        /\ sseOut # <<>>
        /\ sseOut[Len(sseOut)].done
        /\ \A i \in 1..(Len(sseOut) - 1) : ~sseOut[i].done

\* C2: when the stream of a streaming request is closed, every position of
\* the selected types has at least one image or error chunk carrying its
\* index and its decoration type.
C2_EveryIndexReported ==
    StreamClosed =>
        \A p \in DOMAIN selectedTypes :
            \E i \in DOMAIN sseOut :
                /\ IsImageChunk(sseOut[i]) \/ IsErrorChunk(sseOut[i])
                /\ sseOut[i].index = p - 1
                /\ sseOut[i].decorationType = selectedTypes[p]

\* C7: with the API key configured, a validated request issues exactly one
\* provider request per selected type, all of them inside POST.
C7_OneRequestPerType ==
    (apiKey /\ Validated) =>
        httpRequests = [p \in DOMAIN selectedTypes |-> p]

\* C8: the non-streaming response waits for every generation, is the JSON
\* body with the i-th image, type and prompt of the i-th selected type when
\* all succeed, and is an error without images as soon as one fails.
C8_AllOrNothing ==
    (Validated /\ ~request.stream) =>
        /\ response.kind \in {"none", "json", "error"}
        /\ response.kind = "none" <=> (~AllFulfilled(task) /\ ~SomeRejected(task))
        /\ response.kind = "error" <=> SomeRejected(task)
        /\ response.kind = "error" => response.images = <<>>
        /\ response.kind = "json" =>
            /\ response.status = 200
            /\ DOMAIN response.images = DOMAIN selectedTypes
            /\ DOMAIN response.decorationTypes = DOMAIN selectedTypes
            /\ DOMAIN response.prompts = DOMAIN selectedTypes
            /\ \A p \in DOMAIN selectedTypes :
                /\ response.decorationTypes[p] = selectedTypes[p]
                /\ response.images[p].of = selectedTypes[p]
                /\ response.images[p].pos = p
                /\ response.prompts[p].promptFor = selectedTypes[p]

\* C8 witness: two generations succeeded, the second completing first
C8_Witness ==
    /\ request # NoRequest /\ ~request.stream
    /\ response.kind = "json"
    /\ settleOrder = <<2, 1>>

\* the requested entries that are on the whitelist, in request order
Survivors(requested) ==
    SelectSeq(requested,
              LAMBDA x : \E i \in DOMAIN ALLOWED_DECORATION_TYPES :
                             ALLOWED_DECORATION_TYPES[i] = x)

\* C10: every type POST builds a prompt and issues a request for is on the
\* whitelist; the types processed are the first six whitelisted entries of
\* the request, or the six defaults when there is none.
C10_WhitelistedSelection ==
    Validated =>
        LET kept == Survivors(request.decorationTypes)
        IN  /\ DOMAIN task = DOMAIN selectedTypes
            /\ \A p \in DOMAIN selectedTypes :
                   selectedTypes[p] \in Range(ALLOWED_DECORATION_TYPES)
            /\ \A i \in DOMAIN httpRequests : httpRequests[i] \in DOMAIN selectedTypes
            /\ Len(selectedTypes) <= 6
            /\ kept # <<>> =>
                  /\ Len(selectedTypes) = IF Len(kept) < 6 THEN Len(kept) ELSE 6
                  /\ \A p \in DOMAIN selectedTypes : selectedTypes[p] = kept[p]
            /\ kept = <<>> => selectedTypes = DEFAULT_DECORATIONS

\* C10 witness: eight requested entries, the first one off the whitelist
\* and dropped, seven survivors of which the first six are processed
C10_Witness ==
    /\ Validated
    /\ Len(request.decorationTypes) = 8
    /\ request.decorationTypes[1] = "Cup wraps"
    /\ Len(Survivors(request.decorationTypes)) = 7
    /\ Len(selectedTypes) = 6

----------------------------------------------------------------------------
(* The validation step and the catch block of every route handler. *)

\* the catch blocks: the status answered for a thrown Error's message
ProjectsPostErrorStatus(msg) ==
    IF \/ Includes(msg, <<"required">>)
       \/ Includes(msg, <<"invalid">>)
       \/ Includes(msg, <<"too", "long">>)
    THEN 400 ELSE 500

ProjectGetErrorStatus(msg) ==
    IF Includes(msg, <<"Invalid", "ID">>) THEN 400 ELSE 500

ProjectPatchErrorStatus(msg) ==
    IF \/ Includes(msg, <<"Invalid">>)
       \/ Includes(msg, <<"required">>)
       \/ Includes(msg, <<"too", "long">>)
    THEN 400 ELSE 500

ProjectDeleteErrorStatus(msg) ==
    IF Includes(msg, <<"Invalid", "ID">>) THEN 400 ELSE 500

IterationsPostErrorStatus(msg) ==
    IF \/ Includes(msg, <<"Invalid">>)
       \/ Includes(msg, <<"required">>)
       \/ Includes(msg, <<"Unsupported">>)
    THEN 400 ELSE 500

IterationDeleteErrorStatus(msg) ==
    IF Includes(msg, <<"Invalid", "ID">>) THEN 400 ELSE 500

\* a validator call of a handler, with the validator's name
Call(name, outcome) == [validator |-> name, outcome |-> outcome]

\* the validator calls of each handler, in the order the handler makes them
ValidatorCalls(in) ==
    CASE in.endpoint = "generate" ->
           << Call("validateTheme", validateTheme(in.theme)),
              Call("validateDetails", validateDetails(in.details)) >>
      [] in.endpoint = "projects.POST" ->
           << Call("validateName", validateName(in.name)) >>
      [] in.endpoint = "project.GET" ->
           << Call("validateUUID", validateUUID(in.id)) >>
      [] in.endpoint = "project.PATCH" ->
           << Call("validateUUID", validateUUID(in.id)),
              Call("validateName", validateName(in.name)) >>
      [] in.endpoint = "project.DELETE" ->
           << Call("validateUUID", validateUUID(in.id)) >>
      [] in.endpoint = "iterations.POST" ->
           << Call("validateUUID", validateUUID(in.id)),
              Call("validateTheme", validateTheme(in.theme)),
              Call("validateDetails", validateDetails(in.details)),
              Call("validateSize", validateSize(in.size)),
              Call("validateAspectRatio", validateAspectRatio(in.aspectRatio)) >>
      [] in.endpoint = "iteration.DELETE" ->
           << Call("validateUUID", validateUUID(in.id)),
              Call("validateUUID", validateUUID(in.iterationId)) >>

ErrorStatus(endpoint, msg) ==
    CASE endpoint = "generate" -> GenerateErrorStatus(msg)
      [] endpoint = "projects.POST" -> ProjectsPostErrorStatus(msg)
      [] endpoint = "project.GET" -> ProjectGetErrorStatus(msg)
      [] endpoint = "project.PATCH" -> ProjectPatchErrorStatus(msg)
      [] endpoint = "project.DELETE" -> ProjectDeleteErrorStatus(msg)
      [] endpoint = "iterations.POST" -> IterationsPostErrorStatus(msg)
      [] endpoint = "iteration.DELETE" -> IterationDeleteErrorStatus(msg)

\* The first validator of the handler that throws, and the status its
\* catch block answers; status 0 when every validator returned and the
\* handler went on to its own work.
ValidationOutcome(in) ==
    LET calls == ValidatorCalls(in)
        failing == {i \in DOMAIN calls : ~calls[i].outcome.ok}
    IN  IF failing = {}
        THEN [thrownBy |-> "", message |-> <<>>, status |-> 0]
        ELSE LET first == CHOOSE i \in failing : \A j \in failing : i <= j
             IN  [thrownBy |-> calls[first].validator,
                  message |-> calls[first].outcome.err,
                  status |-> ErrorStatus(in.endpoint, calls[first].outcome.err)]

Rep(c, n) == [i \in 1..n |-> c]

\* a version-4 UUID as crypto.randomUUID() makes them, and two that are not
SampleUuid ==
    Rep("a", 8) \o <<"-">> \o Rep("1", 4) \o <<"-", "4">> \o Rep("b", 3)
    \o <<"-", "8">> \o Rep("c", 3) \o <<"-">> \o Rep("0", 12)

SampleUuidV1 == [SampleUuid EXCEPT ![15] = "1"]

InputIds == {Str(SampleUuid), Str(SampleUuidV1), Str(<<"x">>)}

InputNames ==
    {Undefined, Num, Str(<<>>), Str(<<" ">>), Str(<<"<", ">">>),
     Str(<<"a">>), Str(Rep("a", NAME_MAX + 1))}

InputThemes == {Undefined, Str(<<" ">>), Str(<<"<">>), Str(<<"p">>)}

InputDetails == {Undefined, Num, Str(<<"d">>)}

InputSizes == {Undefined, Num, Opt("small"), Opt("1024x1024")}

InputRatios == {Undefined, Num, Opt("4:3"), Opt("3:4")}

ValidationInputs ==
    [endpoint : {"generate"}, id : {Undefined}, iterationId : {Undefined},
     name : {Undefined}, theme : InputThemes, details : InputDetails,
     size : {Undefined}, aspectRatio : {Undefined}]
    \cup
    [endpoint : {"projects.POST"}, id : {Undefined}, iterationId : {Undefined},
     name : InputNames, theme : {Undefined}, details : {Undefined},
     size : {Undefined}, aspectRatio : {Undefined}]
    \cup
    [endpoint : {"project.GET", "project.DELETE"}, id : InputIds,
     iterationId : {Undefined}, name : {Undefined}, theme : {Undefined},
     details : {Undefined}, size : {Undefined}, aspectRatio : {Undefined}]
    \cup
    [endpoint : {"project.PATCH"}, id : InputIds, iterationId : {Undefined},
     name : InputNames, theme : {Undefined}, details : {Undefined},
     size : {Undefined}, aspectRatio : {Undefined}]
    \cup
    [endpoint : {"iterations.POST"}, id : InputIds, iterationId : {Undefined},
     name : {Undefined}, theme : InputThemes, details : InputDetails,
     size : InputSizes, aspectRatio : InputRatios]
    \cup
    [endpoint : {"iteration.DELETE"}, id : InputIds, iterationId : InputIds,
     name : {Undefined}, theme : {Undefined}, details : {Undefined},
     size : {Undefined}, aspectRatio : {Undefined}]

NoOutcome == [thrownBy |-> "", message |-> <<>>, status |-> -1]

InitValidate ==
    /\ probe \in [input : ValidationInputs, outcome : {NoOutcome}]
    /\ request = NoRequest
    /\ apiKey = TRUE
    /\ ServerIdle
    /\ DbIdle
    /\ ClientAbsent

\* a handler runs its validators on the request
Validate ==
    /\ probe.outcome = NoOutcome
    /\ probe' = [probe EXCEPT !.outcome = ValidationOutcome(probe.input)]
    /\ UNCHANGED <<request, apiKey, serverVars, clientVars, dbVars>>

SpecValidate == InitValidate /\ [][Validate]_vars

\* C9: whenever a validator rejects the input of a handler, the handler
\* answers 400.
C9_ValidationIs400 ==
    (probe # <<>> /\ probe.outcome.thrownBy # "") => probe.outcome.status = 400

----------------------------------------------------------------------------
(* POST /api/projects/{id}/iterations: what the handler answers. *)

ITERATION_DECORATION_TYPES ==
    << "Cake topper", "Banner", "Cup/bottle label", "Favor tag",
       "Cupcake topper", "Food label", "Party sign", "Centerpiece",
       "Invitation", "Thank you card", "Sticker", "Backdrop", "Garland",
       "Photo booth prop", "Gift tag" >>

\* validateImageDataUrl accepts the data URLs the provider generated
ValidImages(images) == SelectSeq(images, LAMBDA img : img # EmptyImage)

\* the status of the response to an iteration create request
IterationsPostStatus(projectId, body) ==
    LET v == ValidationOutcome(
                 [endpoint |-> "iterations.POST", id |-> projectId,
                  iterationId |-> Undefined, name |-> Undefined,
                  theme |-> body.theme, details |-> body.details,
                  size |-> body.size, aspectRatio |-> body.aspectRatio])
    IN  IF v.thrownBy # "" THEN v.status
        ELSE IF Len(body.decorationTypes) = 0 THEN 400
        ELSE IF SeqFilter(body.decorationTypes,
                          Range(ITERATION_DECORATION_TYPES)) = <<>> THEN 400
        ELSE IF Len(ValidImages(body.images)) < Len(body.images)
                /\ ValidImages(body.images) = <<>> THEN 400
        ELSE 200

----------------------------------------------------------------------------
(* The browser client: handleGenerate, handleStreamingResponse and         *)
(* saveAndDisplayIteration of the Home component.                          *)

SIZE_OPTIONS ==
    << [id |-> "square", size |-> Opt("1024x1024"), aspectRatio |-> Undefined],
       [id |-> "portrait", size |-> Opt("768x1024"), aspectRatio |-> Opt("3:4")],
       [id |-> "landscape", size |-> Opt("1024x768"), aspectRatio |-> Opt("4:3")] >>

currentSizeOption ==
    IF \E i \in DOMAIN SIZE_OPTIONS : SIZE_OPTIONS[i].id = sizeChoice
    THEN SIZE_OPTIONS[CHOOSE i \in DOMAIN SIZE_OPTIONS : SIZE_OPTIONS[i].id = sizeChoice]
    ELSE SIZE_OPTIONS[1]

\* `decorationType || null`: null and "" are both falsy and render alike
NullType == ""

TempId == [temp |-> TRUE, n |-> 1]
SavedId == [temp |-> FALSE, n |-> 2]
ExistingId == [temp |-> FALSE, n |-> 1]

Iteration(id, types, images, imageTypes, prompts) ==
    [id |-> id, decorationTypes |-> types, images |-> images,
     imageDecorationTypes |-> imageTypes, prompt |-> prompts]

\* an iteration saved by an earlier generation
ExistingIteration ==
    Iteration(ExistingId, <<"Cake topper">>, <<Image("Cake topper", 1, 0)>>,
              <<"Cake topper">>, <<buildDecorationPrompt("Cake topper")>>)

\* Map.prototype.get / set on a Map kept in insertion order
MapHas(map, index) == \E i \in DOMAIN map : map[i].index = index

MapGet(map, index) == map[CHOOSE i \in DOMAIN map : map[i].index = index]

MapSet(map, entry) ==
    IF MapHas(map, entry.index)
    THEN [i \in DOMAIN map |-> IF map[i].index = entry.index THEN entry ELSE map[i]]
    ELSE Append(map, entry)

\* (mutation of CurrentImages: images placed in arrival order)
ImagesAsArrived(map, n) ==
    [p \in 1..n |-> IF p <= Len(map) THEN map[p].image ELSE EmptyImage]

\* Array.from({length}, (_, idx) => imageMap.get(idx)?.image || "")
CurrentImages(map, n) ==
    [p \in 1..n |-> IF MapHas(map, p - 1) THEN MapGet(map, p - 1).image
                    ELSE EmptyImage]

CurrentTypes(map, n) ==
    [p \in 1..n |-> IF MapHas(map, p - 1) THEN MapGet(map, p - 1).decorationType
                    ELSE NullType]

CurrentPrompts(map, n) ==
    [p \in 1..n |-> IF MapHas(map, p - 1) THEN MapGet(map, p - 1).prompt
                    ELSE NoPrompt]

\* setProjects(... iter.id === tempIterationId ? {...iter, images, ...} : iter)
UpdateTemp(its, map, n) ==
    [i \in DOMAIN its |->
        IF its[i].id = TempId
        THEN [its[i] EXCEPT !.images = CurrentImages(map, n),
                            !.imageDecorationTypes = CurrentTypes(map, n),
                            !.prompt = CurrentPrompts(map, n)]
        ELSE its[i]]

\* (mutation of RemoveTemp: the catch leaves the temporary iteration)
KeepTemp(its) == its

\* the catch of handleStreamingResponse: iterations.filter(id !== temp)
RemoveTemp(its) == SelectSeq(its, LAMBDA it : it.id # TempId)

\* saveAndDisplayIteration: iter.id === tempIterationId ? newIteration : iter
ReplaceTemp(its, new) ==
    [i \in DOMAIN its |-> IF its[i].id = TempId THEN new ELSE its[i]]

GenericDoneError ==
    <<"No", "images", "were", "generated.", "Please", "check", "your", "API",
      "credits", "and", "try", "again.">>

GenericEndError == <<"No", "images", "were", "received", "from", "the", "stream">>

SaveError == <<"Failed", "to", "save", "your", "creation.">>

\* errors.map(e => `${e.decorationType}: ${e.error}`).join("; "), as the
\* list of its parts
JoinErrors(map) ==
    [parts |-> [i \in DOMAIN map |-> [decorationType |-> map[i].decorationType,
                                      error |-> map[i].error]],
     text |-> <<>>]

\* the body of the request of saveAndDisplayIteration
SaveBody(images, types, prompts) ==
    [theme |-> Str(Trim(theme)), details |-> Str(<<>>),
     decorationTypes |-> selectedDecorations,
     size |-> currentSizeOption.size,
     aspectRatio |-> currentSizeOption.aspectRatio,
     images |-> images, imageDecorationTypes |-> types, prompt |-> prompts]

ClientFrame == UNCHANGED <<apiKey, serverVars, dbVars, probe, detailsPc>>

\* handleGenerate up to `await fetch("/api/generate")`
handleGenerate ==
    /\ cpc = "idle"
    /\ Trim(theme) # <<>>
    /\ LET n == Len(selectedDecorations)
           tempIteration ==
               Iteration(TempId, selectedDecorations,
                         [p \in 1..n |-> EmptyImage],
                         [p \in 1..n |-> NullType], <<>>)
       IN  iterations' = <<tempIteration>> \o iterations
    /\ request' = [present |-> TRUE, theme |-> Str(Trim(theme)),
                   details |-> Str(<<>>),
                   decorationTypes |-> selectedDecorations, stream |-> TRUE]
    /\ clientError' = NoClientError
    /\ cpc' = "fetching"
    /\ UNCHANGED <<selectedDecorations, sizeChoice, theme, imageMap, errorMap,
                   delivered, saveRequests>>
    /\ ClientFrame

\* the response head arrives: !response.ok throws into handleGenerate's
\* catch, a text/event-stream starts handleStreamingResponse
ReceiveResponse ==
    /\ cpc = "fetching"
    /\ response # NoResponse
    /\ IF response.status # 200
       THEN /\ cpc' = "failed"
            /\ clientError' = ErrorMessage(response.error)
       ELSE /\ cpc' = "streaming"
            /\ UNCHANGED clientError
    /\ UNCHANGED <<request, selectedDecorations, sizeChoice, theme, iterations,
                   imageMap, errorMap, delivered, saveRequests>>
    /\ ClientFrame

\* The finalization of handleStreamingResponse, after [DONE] or at the end
\* of the stream: with no image in a slot it throws, and the catch removes
\* the temporary iteration; otherwise it posts the iteration.
FinalizeWith(imap, emap, its, generic) ==
    LET n == Len(selectedDecorations)
        finalImages == CurrentImages(imap, n)
        finalTypes == CurrentTypes(imap, n)
        finalPrompts == CurrentPrompts(imap, n)
        receivedCount == Len(SelectSeq(finalImages, LAMBDA img : img # EmptyImage))
    IN  IF receivedCount = 0
        THEN /\ iterations' = RemoveTemp(its)
             /\ clientError' = IF emap # <<>> THEN JoinErrors(emap)
                               ELSE ErrorMessage(generic)
             /\ cpc' = "failed"
             /\ UNCHANGED saveRequests
        ELSE /\ saveRequests' =
                   Append(saveRequests,
                          SaveBody(SelectSeq(finalImages, LAMBDA img : img # EmptyImage),
                                   SelectSeq(finalTypes, LAMBDA t : t # NullType),
                                   SelectSeq(finalPrompts, LAMBDA q : q # NoPrompt)))
             /\ cpc' = "saving"
             /\ iterations' = its
             /\ UNCHANGED clientError

\* the finalization on the maps and the list as the event-level reader
\* left them
Finalize(generic) == FinalizeWith(imageMap, errorMap, iterations, generic)

\* reader.read() yields the next SSE line
ReadChunk ==
    /\ cpc = "streaming"
    /\ delivered < Len(sseOut)
    /\ delivered' = delivered + 1
    /\ LET c == sseOut[delivered + 1]
           n == Len(selectedDecorations)
       IN  IF c.done
           THEN /\ Finalize(GenericDoneError)
                /\ UNCHANGED <<imageMap, errorMap>>
           ELSE IF IsErrorChunk(c)
           THEN /\ errorMap' =
                      MapSet(errorMap,
                             [index |-> c.index, error |-> c.error,
                              decorationType |-> IF c.decorationType = ""
                                                 THEN "Unknown"
                                                 ELSE c.decorationType])
                /\ UNCHANGED <<imageMap, iterations, saveRequests, clientError, cpc>>
           ELSE IF IsImageChunk(c) /\ c.index # NoIndex
           THEN /\ imageMap' =
                      MapSet(imageMap,
                             [index |-> c.index, image |-> c.image,
                              decorationType |-> c.decorationType,
                              prompt |-> c.prompt])
                /\ iterations' = UpdateTemp(iterations, imageMap', n)
                /\ UNCHANGED <<errorMap, saveRequests, clientError, cpc>>
           ELSE UNCHANGED <<imageMap, errorMap, iterations, saveRequests,
                            clientError, cpc>>
    /\ UNCHANGED <<request, selectedDecorations, sizeChoice, theme>>
    /\ ClientFrame

\* reader.read() yields done: the stream ended without [DONE]
ReadDone ==
    /\ cpc = "streaming"
    /\ delivered = Len(sseOut)
    /\ controllerClosed
    /\ Finalize(GenericEndError)
    /\ UNCHANGED <<request, selectedDecorations, sizeChoice, theme, imageMap,
                   errorMap, delivered>>
    /\ ClientFrame

\* the id of the active project, made by crypto.randomUUID() on creation
ActiveProjectId == Str(SampleUuid)

\* saveAndDisplayIteration after `await fetch(.../iterations)`: !saveRes.ok
\* throws into the catch of handleStreamingResponse
SaveResponse ==
    /\ cpc = "saving"
    /\ LET body == saveRequests[Len(saveRequests)]
       IN  IF IterationsPostStatus(ActiveProjectId, body) # 200
           THEN /\ iterations' = RemoveTemp(iterations)
                /\ clientError' = ErrorMessage(SaveError)
                /\ cpc' = "failed"
           ELSE /\ iterations' =
                      ReplaceTemp(iterations,
                                  Iteration(SavedId, selectedDecorations,
                                            body.images, body.imageDecorationTypes,
                                            body.prompt))
                /\ cpc' = "done"
                /\ UNCHANGED clientError
    /\ UNCHANGED <<request, selectedDecorations, sizeChoice, theme, imageMap,
                   errorMap, delivered, saveRequests>>
    /\ ClientFrame

----------------------------------------------------------------------------
(* The client and the server together. *)

\* the decoration types the modelled user picks among: whitelisted by the
\* generate route or not
UiTypes == {"Cake topper", "Favor tags", "Cup wraps"}

\* the selections toggleDecoration can reach: non-empty, without repetition
UiSelections == {sel \in SeqsOf(UiTypes, 1, MaxTypes) : NoDup(sel)}

UiThemes == {<<"p">>, <<"<">>}

Init ==
    /\ request = NoRequest
    /\ apiKey \in BOOLEAN
    /\ ServerIdle
    /\ DbIdle
    /\ selectedDecorations \in UiSelections
    /\ sizeChoice \in {SIZE_OPTIONS[i].id : i \in DOMAIN SIZE_OPTIONS}
    /\ theme \in UiThemes
    /\ cpc = "idle"
    /\ iterations = <<ExistingIteration>>
    /\ imageMap = <<>>
    /\ errorMap = <<>>
    /\ delivered = 0
    /\ saveRequests = <<>>
    /\ clientError = NoClientError
    /\ detailsPc = "none"
    /\ probe = <<>>

Next ==
    \/ handleGenerate
    \/ POST
    \/ ReceiveResponse
    \/ \E p \in Positions : FetchFail(p)
    \/ \E p \in Positions : FetchOk(p)
    \/ \E p \in Positions : ReadImage(p)
    \/ \E p \in Positions : ReadEnd(p)
    \/ \E p \in Positions : ReadError(p)
    \/ ReadChunk
    \/ ReadDone
    \/ SaveResponse

Spec == Init /\ [][Next]_vars

----------------------------------------------------------------------------
(* Properties of the client and the server together. *)

\* the temporary iteration is in the project's list
TempPresent == \E i \in DOMAIN iterations : iterations[i].id = TempId

TempIteration == iterations[CHOOSE i \in DOMAIN iterations : iterations[i].id = TempId]

\* the lines the client has read that carry an image (an error) for index idx
ImageArrivals(idx) ==
    {k \in 1..delivered : IsImageChunk(sseOut[k]) /\ sseOut[k].index = idx}

ErrorArrivals(idx) ==
    {k \in 1..delivered : IsErrorChunk(sseOut[k]) /\ sseOut[k].index = idx}

Latest(S) == CHOOSE k \in S : \A j \in S : j <= k

\* the slots 0..n-1 for which an image has been read, in slot order
ReceivedSlots ==
    SelectSeq([p \in 1..Len(selectedDecorations) |-> p - 1],
              LAMBDA idx : ImageArrivals(idx) # {})

ReceivedImages ==
    [i \in DOMAIN ReceivedSlots |-> sseOut[Latest(ImageArrivals(ReceivedSlots[i]))].image]

ReceivedTypes ==
    [i \in DOMAIN ReceivedSlots |->
        sseOut[Latest(ImageArrivals(ReceivedSlots[i]))].decorationType]

\* the error events read, one per index, in the order their index first came
ReportedErrors ==
    LET first == SelectSeq([k \in 1..delivered |-> k],
                           LAMBDA k : /\ IsErrorChunk(sseOut[k])
                                      /\ \A j \in 1..(k - 1) :
                                            ~(IsErrorChunk(sseOut[j])
                                              /\ sseOut[j].index = sseOut[k].index))
    IN  [i \in DOMAIN first |->
            LET c == sseOut[Latest(ErrorArrivals(sseOut[first[i]].index))]
            IN  [decorationType |-> IF c.decorationType = "" THEN "Unknown"
                                    ELSE c.decorationType,
                 error |-> c.error]]

\* handleStreamingResponse has returned or thrown
StreamConsumed == response.kind = "sse" /\ cpc \in {"saving", "done", "failed"}

DoneDelivered == \E k \in 1..delivered : sseOut[k].done

(* C3: the index of every event the server writes is the position, in the  *)
(* list of decoration types the client selected and sent, of the event's   *)
(* decoration type.                                                        *)
C3_IndexIsClientPosition ==
    \A k \in DOMAIN sseOut :
        sseOut[k].index # NoIndex =>
            /\ sseOut[k].index + 1 \in DOMAIN selectedDecorations
            /\ selectedDecorations[sseOut[k].index + 1] = sseOut[k].decorationType

(* C4: whatever the order in which the events arrive, after every prefix   *)
(* read so far slot i of the temporary iteration holds the image and the   *)
(* type of the image event with index i when one has been read, and the    *)
(* placeholders otherwise.                                                 *)
C4_SlotsFollowIndex ==
    TempPresent =>
        /\ Len(TempIteration.images) = Len(selectedDecorations)
        /\ Len(TempIteration.imageDecorationTypes) = Len(selectedDecorations)
        /\ \A idx \in 0..(Len(selectedDecorations) - 1) :
              IF ImageArrivals(idx) = {}
              THEN /\ TempIteration.images[idx + 1] = EmptyImage
                   /\ TempIteration.imageDecorationTypes[idx + 1] = NullType
              ELSE LET c == sseOut[Latest(ImageArrivals(idx))]
                   IN  /\ TempIteration.images[idx + 1] = c.image
                       /\ TempIteration.imageDecorationTypes[idx + 1] = c.decorationType

\* the image of index 1 was read before the image of index 0
C4_Witness ==
    /\ TempPresent
    /\ \E k1, k2 \in 1..delivered :
          /\ k1 < k2
          /\ IsImageChunk(sseOut[k1]) /\ sseOut[k1].index = 1
          /\ IsImageChunk(sseOut[k2]) /\ sseOut[k2].index = 0

(* C5: when the stream has been consumed and no image was read for any of  *)
(* the slots, the client has thrown the per-index error messages joined    *)
(* (the generic message when there are none), has sent no request to the   *)
(* iterations endpoint and has removed the temporary iteration.            *)
C5_NoImageIsError ==
    (StreamConsumed /\ ReceivedSlots = <<>>) =>
        /\ cpc = "failed"
        /\ saveRequests = <<>>
        /\ ~TempPresent
        /\ clientError =
              IF ReportedErrors # <<>>
              THEN [parts |-> ReportedErrors, text |-> <<>>]
              ELSE ErrorMessage(IF DoneDelivered THEN GenericDoneError
                                ELSE GenericEndError)

\* [DONE] was read after an error event for each of two slots and no image
C5_Witness ==
    /\ StreamConsumed
    /\ ReceivedSlots = <<>>
    /\ DoneDelivered
    /\ Len(selectedDecorations) = 2
    /\ ErrorArrivals(0) # {}
    /\ ErrorArrivals(1) # {}

(* C6: when the stream has been consumed and an image was read for at      *)
(* least one slot, the client has saved the iteration with exactly one     *)
(* request carrying exactly the images read, each with its own type, and   *)
(* the saved iteration has taken the place of the temporary one.           *)
C6_PartialResultSaved ==
    (StreamConsumed /\ cpc # "saving" /\ ReceivedSlots # <<>>) =>
        /\ cpc = "done"
        /\ Len(saveRequests) = 1
        /\ saveRequests[1].images = ReceivedImages
        /\ saveRequests[1].imageDecorationTypes = ReceivedTypes
        /\ ~TempPresent
        /\ \E i \in DOMAIN iterations :
              /\ iterations[i].id = SavedId
              /\ iterations[i].images = ReceivedImages
              /\ iterations[i].imageDecorationTypes = ReceivedTypes

----------------------------------------------------------------------------
(* validateTheme on its own, over every short text. *)

\* length of the texts validateTheme is applied to
MaxThemeLen == 4

ThemeChars == {"a", " ", "<"}

\* the themes a request body can carry: absent, not a string, every short
\* text, and texts around the 200-character limit
ThemeInputs ==
    {Undefined, Num}
    \cup {Str(v) : v \in SeqsOf(ThemeChars, 0, MaxThemeLen)}
    \cup {Str(Rep("a", THEME_MAX)), Str(Rep("a", THEME_MAX + 1)),
          Str(Rep("a", THEME_MAX - 1) \o <<"<", "b">>)}

NotApplied == [ok |-> FALSE, value |-> <<>>, err |-> <<"not", "applied">>]

InitTheme ==
    /\ probe \in [input : ThemeInputs, outcome : {NotApplied}]
    /\ request = NoRequest
    /\ apiKey = TRUE
    /\ ServerIdle
    /\ DbIdle
    /\ ClientAbsent

\* const validatedTheme = validateTheme(body.theme)
ApplyValidateTheme ==
    /\ probe.outcome = NotApplied
    /\ probe' = [probe EXCEPT !.outcome = validateTheme(probe.input)]
    /\ UNCHANGED <<request, apiKey, serverVars, clientVars, dbVars>>

SpecTheme == InitTheme /\ [][ApplyValidateTheme]_vars

(* C11: validateTheme rejects a theme that is missing, not a string, empty *)
(* or whitespace-only, and every theme it returns has at most 200          *)
(* characters, no '<' or '>' and at least one non-whitespace character.    *)
C11_ThemeRequired ==
    probe.outcome # NotApplied =>
        /\ (probe.input.t # "string" \/ \A i \in DOMAIN probe.input.v :
                                            IsWhite(probe.input.v[i]))
              => ~probe.outcome.ok
        /\ probe.outcome.ok =>
              /\ Len(probe.outcome.value) <= 200
              /\ \A i \in DOMAIN probe.outcome.value :
                    probe.outcome.value[i] \notin {"<", ">"}
              /\ \E i \in DOMAIN probe.outcome.value :
                    ~IsWhite(probe.outcome.value[i])

----------------------------------------------------------------------------
(* The project and iteration routes over the SQLite database. *)

\* projects created in one run of the model
MaxProjects == 1
\* iterations created in one run of the model
MaxIterations == 1

Digits == <<"0", "1", "2", "3", "4", "5", "6", "7", "8", "9">>

\* the n-th result of crypto.randomUUID()
Uuid(n) == [SampleUuid EXCEPT ![36] = Digits[n + 1]]

\* SQL NULL, JSON null
Null == [t |-> "null", v |-> <<>>]

\* a data URL of type text/plain: validateImageDataUrl answers
\* "Unsupported image type"
PlainTextUrl == [of |-> "text/plain", pos |-> 0, n |-> 0]

validateImageDataUrl(dataUrl) == dataUrl # EmptyImage /\ dataUrl # PlainTextUrl

\* validateImageDataUrls(dataUrls).valid and .errors
validateImageDataUrls(dataUrls) ==
    [valid |-> SelectSeq(dataUrls, validateImageDataUrl),
     errors |-> SelectSeq(dataUrls, LAMBDA u : ~validateImageDataUrl(u))]

\* SELECT * FROM t WHERE column = value, in rowid order
ProjectsById(id) == SelectSeq(projectsTable, LAMBDA r : r.id = id)

IterationsOfProject(id) == SelectSeq(iterationsTable, LAMBDA r : r.projectId = id)

ImagesOfIteration(id) == SelectSeq(imagesTable, LAMBDA r : r.iterationId = id)

\* ORDER BY createdAt DESC of rows whose createdAt values differ
RECURSIVE OrderByCreatedAtDesc(_)
OrderByCreatedAtDesc(rows) ==
    IF rows = <<>> THEN <<>>
    ELSE LET newest == CHOOSE i \in DOMAIN rows :
                           \A j \in DOMAIN rows : rows[j].createdAt <= rows[i].createdAt
         IN  <<rows[newest]>>
             \o OrderByCreatedAtDesc(SelectSeq(rows, LAMBDA r : r # rows[newest]))

\* the response of a project route
Reply(endpoint, status, error, body) ==
    [endpoint |-> endpoint, status |-> status, error |-> error, body |-> body]

NoBody == [success |-> FALSE]

\* the request of a project route: path parameters and JSON body
ApiRequest(id, iterationId, name, body) ==
    [id |-> id, iterationId |-> iterationId, name |-> name, body |-> body]

NoIterationBody == [present |-> FALSE]

DbFrame == UNCHANGED <<request, apiKey, serverVars, clientVars, probe>>

\* POST /api/projects
ProjectsPost(req) ==
    LET validatedName == validateName(req.name)
    IN  /\ validatedName.ok => /\ nextId <= MaxProjects + MaxIterations
                                /\ Len(projectsTable) < MaxProjects
        /\ IF ~validatedName.ok
           THEN /\ reply' = Reply("projects.POST",
                                  ProjectsPostErrorStatus(validatedName.err),
                                  validatedName.err, NoBody)
                /\ UNCHANGED <<projectsTable, nextId, clock>>
           ELSE LET row == [id |-> Uuid(nextId), name |-> validatedName.value,
                            createdAt |-> clock]
                IN  /\ projectsTable' = Append(projectsTable, row)
                    /\ nextId' = nextId + 1
                    /\ clock' = clock + 1
                    /\ reply' = Reply("projects.POST", 200, <<>>,
                                      [project |-> row, iterations |-> <<>>])
        /\ UNCHANGED <<iterationsTable, imagesTable>>
        /\ DbFrame

\* the iteration object GET builds from an iteration row and its image rows
FullIteration(iteration) ==
    LET images == ImagesOfIteration(iteration.id)
        generatedImages == SelectSeq(images, LAMBDA img : img.type = "generated")
        referenceImages == SelectSeq(images, LAMBDA img : img.type = "reference")
    IN  [row |-> iteration,
         decorationTypes |-> iteration.decorationTypes,
         images |-> [i \in DOMAIN generatedImages |-> generatedImages[i].data],
         imageDecorationTypes |->
             [i \in DOMAIN generatedImages |-> generatedImages[i].decorationType],
         referenceImages |-> [i \in DOMAIN referenceImages |-> referenceImages[i].data]]

\* the response of GET /api/projects/{id}
ProjectGetResponse(req) ==
    LET validatedId == validateUUID(req.id)
    IN  IF ~validatedId.ok
        THEN Reply("project.GET", ProjectGetErrorStatus(validatedId.err),
                   validatedId.err, NoBody)
        ELSE IF ProjectsById(validatedId.value) = <<>>
        THEN Reply("project.GET", 404, <<"Project", "not", "found">>, NoBody)
        ELSE LET iterationRows ==
                     OrderByCreatedAtDesc(IterationsOfProject(validatedId.value))
             IN  Reply("project.GET", 200, <<>>,
                       [project |-> ProjectsById(validatedId.value)[1],
                        iterations |->
                            [i \in DOMAIN iterationRows |->
                                FullIteration(iterationRows[i])]])

\* GET /api/projects/{id}
ProjectGet(req) ==
    /\ reply' = ProjectGetResponse(req)
    /\ UNCHANGED <<projectsTable, iterationsTable, imagesTable, nextId, clock>>
    /\ DbFrame

\* PATCH /api/projects/{id}
ProjectPatch(req) ==
    LET validatedId == validateUUID(req.id)
        validatedName == validateName(req.name)
    IN  /\ IF ~validatedId.ok
           THEN /\ reply' = Reply("project.PATCH",
                                  ProjectPatchErrorStatus(validatedId.err),
                                  validatedId.err, NoBody)
                /\ UNCHANGED projectsTable
           ELSE IF ~validatedName.ok
           THEN /\ reply' = Reply("project.PATCH",
                                  ProjectPatchErrorStatus(validatedName.err),
                                  validatedName.err, NoBody)
                /\ UNCHANGED projectsTable
           ELSE IF ProjectsById(validatedId.value) = <<>>
           THEN /\ reply' = Reply("project.PATCH", 404,
                                  <<"Project", "not", "found">>, NoBody)
                /\ UNCHANGED projectsTable
           ELSE /\ projectsTable' =
                      [i \in DOMAIN projectsTable |->
                          IF projectsTable[i].id = validatedId.value
                          THEN [projectsTable[i] EXCEPT !.name = validatedName.value]
                          ELSE projectsTable[i]]
                /\ reply' = Reply("project.PATCH", 200, <<>>,
                                  [project |->
                                      [ProjectsById(validatedId.value)[1]
                                          EXCEPT !.name = validatedName.value],
                                   iterations |-> <<>>])
        /\ UNCHANGED <<iterationsTable, imagesTable, nextId, clock>>
        /\ DbFrame

\* (mutation of CascadeIterations: the delete does not cascade)
NoCascade(projects) == iterationsTable

\* ON DELETE CASCADE: the rows left when their parents are gone
CascadeIterations(projects) ==
    SelectSeq(iterationsTable,
              LAMBDA r : \E i \in DOMAIN projects : projects[i].id = r.projectId)

CascadeImages(its) ==
    SelectSeq(imagesTable,
              LAMBDA r : \E i \in DOMAIN its : its[i].id = r.iterationId)

\* DELETE /api/projects/{id}
ProjectDelete(req) ==
    LET validatedId == validateUUID(req.id)
    IN  /\ IF ~validatedId.ok
           THEN /\ reply' = Reply("project.DELETE",
                                  ProjectDeleteErrorStatus(validatedId.err),
                                  validatedId.err, NoBody)
                /\ UNCHANGED <<projectsTable, iterationsTable, imagesTable>>
           ELSE IF ProjectsById(validatedId.value) = <<>>
           THEN /\ reply' = Reply("project.DELETE", 404,
                                  <<"Project", "not", "found">>, NoBody)
                /\ UNCHANGED <<projectsTable, iterationsTable, imagesTable>>
           ELSE /\ projectsTable' =
                      SelectSeq(projectsTable, LAMBDA r : r.id # validatedId.value)
                /\ iterationsTable' = CascadeIterations(projectsTable')
                /\ imagesTable' = CascadeImages(iterationsTable')
                /\ reply' = Reply("project.DELETE", 200, <<>>,
                                  [success |-> TRUE])
        /\ UNCHANGED <<nextId, clock>>
        /\ DbFrame

\* a JSON array
Arr(elems) == [t |-> "array", v |-> elems]

\* Array.isArray(x) ? x : []
ArrayOrEmpty(x) == IF x.t = "array" THEN x.v ELSE <<>>

PROMPT_MAX == 2000

\* value || null, for the value a validator returns
OrNull(value) == IF value = <<>> THEN Null ELSE Str(value)

\* the rows the transaction of iteration create inserts into `images`:
\* the i-th valid image with imageDecorationTypes[i], then the references
GeneratedRows(iterationId, validatedImages, imageDecorationTypes) ==
    [i \in DOMAIN validatedImages |->
        [iterationId |-> iterationId, data |-> validatedImages[i],
         type |-> "generated",
         decorationType |-> IF imageDecorationTypes.t = "array"
                            THEN Str(<<imageDecorationTypes.v[i]>>)
                            ELSE Null]]

ReferenceRows(iterationId, validatedReferenceImages) ==
    [i \in DOMAIN validatedReferenceImages |->
        [iterationId |-> iterationId, data |-> validatedReferenceImages[i],
         type |-> "reference", decorationType |-> Null]]

\* a JSON `true` where a string is expected
JsonTrue == "true"

\* Statement.run binds numbers, strings, bigints, buffers and null
\* (undefined as null); for any other value it throws a TypeError
Bindable(value) == value # JsonTrue

\* the positions of the valid images whose insertImage.run throws
Unbound(validatedImages, imageDecorationTypes) ==
    {i \in DOMAIN validatedImages :
        /\ imageDecorationTypes.t = "array"
        /\ ~Bindable(imageDecorationTypes.v[i])}

\* (mutation of RollBack: the rows inserted before the throw are kept)
KeepPartial(before, partial) == partial

\* db.transaction: a throw inside the function rolls back what it inserted
RollBack(before, partial) == before

SavingError == <<"An", "error", "occurred", "while", "saving", "the", "iteration">>

\* POST /api/projects/{id}/iterations
IterationsPost(req) ==
    LET body == req.body
        v == ValidationOutcome(
                 [endpoint |-> "iterations.POST", id |-> req.id,
                  iterationId |-> Undefined, name |-> Undefined,
                  theme |-> body.theme, details |-> body.details,
                  size |-> body.size, aspectRatio |-> body.aspectRatio])
        validatedPrompt == sanitizeText(body.prompt, PROMPT_MAX)
        validatedDecorationTypes ==
            SeqFilter(ArrayOrEmpty(body.decorationTypes),
                      Range(ITERATION_DECORATION_TYPES))
        images == validateImageDataUrls(ArrayOrEmpty(body.images))
        validatedReferenceImages ==
            validateImageDataUrls(ArrayOrEmpty(body.referenceImages)).valid
        iterationId == Uuid(nextId)
        row == [id |-> iterationId,
                projectId |-> validateUUID(req.id).value,
                theme |-> validateTheme(body.theme).value,
                details |-> OrNull(validateDetails(body.details).value),
                decorationTypes |-> validatedDecorationTypes,
                imageCount |-> Len(images.valid),
                size |-> OrNull(validateSize(body.size).value),
                aspectRatio |-> OrNull(validateAspectRatio(body.aspectRatio).value),
                prompt |-> validatedPrompt,
                createdAt |-> clock]
        fail(status, error) ==
            /\ reply' = Reply("iterations.POST", status, error, NoBody)
            /\ UNCHANGED <<iterationsTable, imagesTable, nextId, clock>>
    IN  /\ IF v.thrownBy # "" THEN fail(v.status, v.message)
           ELSE IF ArrayOrEmpty(body.decorationTypes) = <<>>
           THEN fail(400, <<"At", "least", "one", "decoration", "type", "is",
                            "required">>)
           ELSE IF validatedDecorationTypes = <<>>
           THEN fail(400, <<"No", "valid", "decoration", "types", "provided">>)
           ELSE IF images.errors # <<>> /\ images.valid = <<>>
           THEN fail(400, <<"Invalid", "images">>)
           \* the transaction: a NOT NULL or FOREIGN KEY constraint that
           \* fails throws a SqliteError and rolls the transaction back
           ELSE IF row.size = Null \/ ProjectsById(row.projectId) = <<>>
           THEN fail(500, SavingError)
           \* insertImage.run throws after the iteration row and the image
           \* rows before it have been inserted
           ELSE IF Unbound(images.valid, body.imageDecorationTypes) # {}
           THEN LET first == CHOOSE i \in Unbound(images.valid, body.imageDecorationTypes) :
                                \A j \in Unbound(images.valid, body.imageDecorationTypes) : i <= j
                    rows == GeneratedRows(iterationId, images.valid,
                                          body.imageDecorationTypes)
                IN  /\ iterationsTable' =
                          RollBack(iterationsTable, Append(iterationsTable, row))
                    /\ imagesTable' =
                          RollBack(imagesTable,
                                   imagesTable \o SubSeq(rows, 1, first - 1))
                    /\ reply' = Reply("iterations.POST", 500, SavingError, NoBody)
                    /\ UNCHANGED <<nextId, clock>>
           ELSE /\ nextId <= MaxProjects + MaxIterations
                /\ Len(iterationsTable) < MaxIterations
                /\ iterationsTable' = Append(iterationsTable, row)
                /\ imagesTable' =
                      imagesTable
                      \o GeneratedRows(iterationId, images.valid,
                                       body.imageDecorationTypes)
                      \o ReferenceRows(iterationId, validatedReferenceImages)
                /\ nextId' = nextId + 1
                /\ clock' = clock + 1
                /\ reply' = Reply("iterations.POST", 200, <<>>,
                                  [success |-> TRUE, iterationId |-> iterationId])
        /\ UNCHANGED projectsTable
        /\ DbFrame

\* DELETE /api/projects/{id}/iterations/{iterationId}
IterationDelete(req) ==
    LET validatedProjectId == validateUUID(req.id)
        validatedIterationId == validateUUID(req.iterationId)
    IN  /\ IF ~validatedProjectId.ok \/ ~validatedIterationId.ok
           THEN /\ reply' = Reply("iteration.DELETE",
                                  IterationDeleteErrorStatus(<<"Invalid", "ID", "format">>),
                                  <<"Invalid", "ID", "format">>, NoBody)
                /\ UNCHANGED <<iterationsTable, imagesTable>>
           ELSE /\ imagesTable' =
                      SelectSeq(imagesTable,
                                LAMBDA r : r.iterationId # validatedIterationId.value)
                /\ iterationsTable' =
                      SelectSeq(iterationsTable,
                                LAMBDA r : r.id # validatedIterationId.value)
                /\ IF iterationsTable' = iterationsTable
                   THEN reply' = Reply("iteration.DELETE", 404,
                                       <<"Iteration", "not", "found">>, NoBody)
                   ELSE reply' = Reply("iteration.DELETE", 200, <<>>,
                                       [success |-> TRUE])
        /\ UNCHANGED <<projectsTable, nextId, clock>>
        /\ DbFrame

----------------------------------------------------------------------------
(* Any sequence of requests to the project and iteration routes. *)

ApiIds == {Str(Uuid(n)) : n \in 1..(MaxProjects + MaxIterations)} \cup {Str(<<"x">>)}

ApiNames == {Undefined, Str(<<"a">>), Str(Rep("a", NAME_MAX + 1))}

ImageA == Image("Cake topper", 1, 0)
ImageB == Image("Banner", 2, 0)
ImageR == Image("reference", 0, 0)

\* a request body the iteration route stores as it is
PlainBody ==
    [theme |-> Str(<<"p">>), details |-> Undefined,
     decorationTypes |-> Arr(<<"Cake topper">>),
     size |-> Opt("small"), aspectRatio |-> Undefined,
     images |-> Arr(<<ImageA, ImageB>>),
     imageDecorationTypes |-> Arr(<<"Cake topper", "Banner">>),
     prompt |-> Str(<<"q">>), referenceImages |-> Arr(<<>>)]

\* The bodies of the modelled iteration create requests.  Where
\* imageDecorationTypes is an array it has the length of images.
IterationBodies ==
    { PlainBody,
      [PlainBody EXCEPT !.theme = Str(<<" ", "p", "<">>),
                        !.details = Str(<<"d">>), !.aspectRatio = Opt("4:3"),
                        !.decorationTypes = Arr(<<"Cake topper", "Favor tags">>),
                        !.imageDecorationTypes = Undefined,
                        !.referenceImages = Arr(<<ImageR>>)],
      [PlainBody EXCEPT !.images = Arr(<<PlainTextUrl, ImageB>>)],
      [PlainBody EXCEPT !.theme = Undefined],
      [PlainBody EXCEPT !.decorationTypes = Arr(<<"Cup wraps">>)],
      [PlainBody EXCEPT !.size = Undefined],
      [PlainBody EXCEPT !.imageDecorationTypes = Arr(<<"Cake topper", JsonTrue>>)] }

InitApi ==
    /\ request = NoRequest
    /\ apiKey = TRUE
    /\ ServerIdle
    /\ DbIdle
    /\ ClientAbsent
    /\ probe = <<>>

NextApi ==
    \/ \E name \in ApiNames :
          ProjectsPost(ApiRequest(Undefined, Undefined, name, NoIterationBody))
    \/ \E id \in ApiIds :
          ProjectGet(ApiRequest(id, Undefined, Undefined, NoIterationBody))
    \/ \E id \in ApiIds, name \in ApiNames :
          ProjectPatch(ApiRequest(id, Undefined, name, NoIterationBody))
    \/ \E id \in ApiIds :
          ProjectDelete(ApiRequest(id, Undefined, Undefined, NoIterationBody))
    \/ \E id \in ApiIds, body \in IterationBodies :
          IterationsPost(ApiRequest(id, Undefined, Undefined, body))
    \/ \E id, iterationId \in ApiIds :
          IterationDelete(ApiRequest(id, iterationId, Undefined, NoIterationBody))

SpecApi == InitApi /\ [][NextApi]_vars

----------------------------------------------------------------------------
(* Properties of the project and iteration routes. *)

TooLongError == <<"Name", "is", "too", "long", "(maximum", "100", "characters)">>

ProjectsPostRequest(name) == ApiRequest(Undefined, Undefined, name, NoIterationBody)

ProjectPatchRequest(id, name) == ApiRequest(id, Undefined, name, NoIterationBody)

(* C12: a project create, and a rename of an existing project, whose name  *)
(* has more than 100 characters is answered 400 with the error 'Name is    *)
(* too long (maximum 100 characters)' and leaves the projects table as it  *)
(* was.                                                                    *)
C12_LongNameRejected ==
    [][\A name \in ApiNames :
          (name.t = "string" /\ Len(name.v) > 100) =>
              /\ ProjectsPost(ProjectsPostRequest(name)) =>
                    /\ reply'.status = 400
                    /\ reply'.error = TooLongError
                    /\ projectsTable' = projectsTable
              /\ \A id \in ApiIds :
                    (ProjectsById(id.v) # <<>>
                     /\ ProjectPatch(ProjectPatchRequest(id, name))) =>
                        /\ reply'.status = 400
                        /\ reply'.error = TooLongError
                        /\ projectsTable' = projectsTable]_vars

ProjectGetRequest(id) == ApiRequest(id, Undefined, Undefined, NoIterationBody)

IterationsPostRequest(id, body) == ApiRequest(id, Undefined, Undefined, body)

\* a stored column holds what the request carried; an absent or empty
\* optional field is stored as NULL
SameOptional(stored, sent) ==
    IF IsBlank(sent) THEN stored = Null ELSE stored = sent

\* the iteration GET returns carries the fields of the create request
SameAsSent(got, body) ==
    /\ got.row.theme = body.theme.v
    /\ SameOptional(got.row.details, body.details)
    /\ got.decorationTypes = body.decorationTypes.v
    /\ got.row.size = body.size
    /\ SameOptional(got.row.aspectRatio, body.aspectRatio)
    /\ got.row.prompt = body.prompt.v
    /\ got.images = body.images.v
    /\ body.imageDecorationTypes.t = "array" =>
          /\ Len(got.imageDecorationTypes) = Len(body.imageDecorationTypes.v)
          /\ \A i \in DOMAIN got.imageDecorationTypes :
                got.imageDecorationTypes[i] = Str(<<body.imageDecorationTypes.v[i]>>)
    /\ got.referenceImages = body.referenceImages.v

(* C13: when an iteration create in a created project has succeeded, GET   *)
(* of the project returns the project row that creation made and the       *)
(* iteration with the theme, details, decorationTypes, size, aspectRatio,  *)
(* prompt, images, imageDecorationTypes and referenceImages of the create  *)
(* request.                                                                *)
C13_RoundTrip ==
    [][\A id \in ApiIds, body \in IterationBodies :
          (IterationsPost(IterationsPostRequest(id, body)) /\ reply'.status = 200) =>
              LET got == ProjectGetResponse(ProjectGetRequest(id))'
              IN  /\ got.status = 200
                  /\ got.body.project = ProjectsById(id.v)[1]
                  /\ \E i \in DOMAIN got.body.iterations :
                        /\ got.body.iterations[i].row.id = reply'.body.iterationId
                        /\ SameAsSent(got.body.iterations[i], body)]_vars

(* C14: after any sequence of requests every iteration row refers to an   *)
(* existing project and every image row to an existing iteration; so a     *)
(* deleted project has left no iteration and no image behind, and a        *)
(* deleted iteration no image.                                             *)
C14_ReferentialIntegrity ==
    /\ \A i \in DOMAIN iterationsTable :
          ProjectsById(iterationsTable[i].projectId) # <<>>
    /\ \A i \in DOMAIN imagesTable :
          \E j \in DOMAIN iterationsTable :
              iterationsTable[j].id = imagesTable[i].iterationId

\* a project was deleted after an iteration had been created in it
C14_Witness ==
    /\ reply.endpoint = "project.DELETE"
    /\ reply.status = 200
    /\ projectsTable = <<>>
    /\ nextId > 2

\* the position in the request's images array of a stored image
PositionIn(images, data) == CHOOSE i \in DOMAIN images : images[i] = data

(* C20: every generated image row an iteration create stores carries the   *)
(* entry of imageDecorationTypes found at the position that image has in   *)
(* the images array of the request, also when other images of the request  *)
(* fail validation and are dropped.                                        *)
C20_TypeOfOwnPosition ==
    [][\A id \in ApiIds, body \in IterationBodies :
          (/\ IterationsPost(IterationsPostRequest(id, body))
           /\ reply'.status = 200
           /\ body.imageDecorationTypes.t = "array") =>
              \A i \in DOMAIN imagesTable' :
                  (/\ imagesTable'[i].iterationId = reply'.body.iterationId
                   /\ imagesTable'[i].type = "generated") =>
                      imagesTable'[i].decorationType =
                          Str(<<body.imageDecorationTypes.v[
                                    PositionIn(body.images.v, imagesTable'[i].data)]>>)]_vars

----------------------------------------------------------------------------
(* Properties of the generate route, continued. *)

(* C15: with OPENROUTER_API_KEY unset a validated generate request issues  *)
(* no request to the provider; the non-streaming response is an error, and *)
(* the closed stream of a streaming request holds no image event, an error *)
(* event for every selected index, and [DONE] as its last chunk.           *)
C15_NoKeyNoRequest ==
    (~apiKey /\ Validated) =>
        /\ httpRequests = <<>>
        /\ (~request.stream /\ response # NoResponse) => response.kind = "error"
        /\ StreamClosed =>
              /\ \A i \in DOMAIN sseOut : ~IsImageChunk(sseOut[i])
              /\ \A p \in DOMAIN selectedTypes :
                    \E i \in DOMAIN sseOut :
                        /\ IsErrorChunk(sseOut[i])
                        /\ sseOut[i].index = p - 1
              /\ sseOut # <<>>
              /\ sseOut[Len(sseOut)].done

(* C16: every decoration type a validated generate request selects, a     *)
(* whitelisted type of the request or one of the six defaults, has a       *)
(* template in DECORATION_PROMPTS, so that buildDecorationPrompt does not   *)
(* throw for it.                                                           *)
C16_SelectedTypeHasPrompt ==
    Validated =>
        \A p \in DOMAIN selectedTypes : HasPrompt(selectedTypes[p])

----------------------------------------------------------------------------
(* The two SSE line parsers over a stream of characters that arrives in    *)
(* read chunks: the upstream parser of streamImageGeneration and the       *)
(* parser of handleStreamingResponse. A JSON payload is the three          *)
(* characters "{", a letter and "}": the letter names the object.          *)

MaxLines == 2

NewLine == "\n"

DataPrefix == <<"d", "a", "t", "a", ":", " ">>

DoneMark == <<"[", "D", "O", "N", "E", "]">>

\* String.prototype.startsWith
StartsWith(s, prefix) ==
    Len(s) >= Len(prefix) /\ SubSeq(s, 1, Len(prefix)) = prefix

\* String.prototype.slice(n)
SliceFrom(s, n) == SubSeq(s, n + 1, Len(s))

\* the positions of the newlines of a buffer, ascending
NewLines(buf) ==
    SelectSeq([i \in DOMAIN buf |-> i], LAMBDA i : buf[i] = NewLine)

\* buffer.split("\n") without its last element: the complete lines
Lines(buf) ==
    LET nl == NewLines(buf)
    IN  [k \in DOMAIN nl |->
            SubSeq(buf, IF k = 1 THEN 1 ELSE nl[k - 1] + 1, nl[k] - 1)]

\* (mutation of Rest: the incomplete line is thrown away)
NoRest(buf) == <<>>

\* lines.pop() || "": the incomplete line kept for the next read
Rest(buf) ==
    LET nl == NewLines(buf)
    IN  IF nl = <<>> THEN buf ELSE SliceFrom(buf, nl[Len(nl)])

NoJson == [ok |-> FALSE, kind |-> ""]

\* JSON.parse(data): "{i}" and "{j}" are objects that carry an image,
\* "{e}" one that carries an error; any other text throws
JsonParse(data) ==
    IF /\ Len(data) = 3
       /\ data[1] = "{"
       /\ data[3] = "}"
       /\ data[2] \in {"i", "j", "e"}
    THEN [ok |-> TRUE, kind |-> data[2]]
    ELSE NoJson

\* the url of choices[].delta.images[].image_url of an upstream object
UpstreamImage(kind) == Image("", 1, IF kind = "i" THEN 0 ELSE 1)

GatewayOpen ==
    [buffer |-> <<>>, out |-> <<>>, st |-> "open"]

\* (mutation of GatewayDone: [DONE] is skipped like a blank line)
GatewayIgnoreDone(g) == g

\* data === "[DONE]": controller.close(); return
GatewayDone(g) == [g EXCEPT !.st = "closed"]

\* the body of `for (const line of lines)` of the gateway
GatewayLine(g, line) ==
    IF Trim(line) = <<>> \/ ~StartsWith(line, DataPrefix) THEN g
    ELSE LET data == SliceFrom(line, Len(DataPrefix))
             parsed == JsonParse(data)
         IN  IF data = DoneMark THEN GatewayDone(g)
             ELSE IF ~parsed.ok THEN g
             ELSE IF parsed.kind = "e" THEN [g EXCEPT !.st = "errored"]
             ELSE [g EXCEPT !.out = Append(@, UpstreamImage(parsed.kind))]

\* the for-loop of the gateway: a return ends it
RECURSIVE GatewayLines(_, _)
GatewayLines(g, lines) ==
    IF lines = <<>> \/ g.st # "open" THEN g
    ELSE GatewayLines(GatewayLine(g, Head(lines)), Tail(lines))

\* one turn of `while (true)` of the gateway with a chunk read
GatewayRead(g, chunk) ==
    IF g.st # "open" THEN g
    ELSE LET buf == g.buffer \o chunk
         IN  GatewayLines([g EXCEPT !.buffer = Rest(buf)], Lines(buf))

\* reader.read() yields done: the remaining buffer, then controller.close()
GatewayEnd(g) ==
    IF g.st # "open" THEN g
    ELSE LET data == SliceFrom(g.buffer, Len(DataPrefix))
             parsed == JsonParse(data)
         IN  [g EXCEPT !.st = "closed",
                       !.out = IF /\ Trim(g.buffer) # <<>>
                                  /\ StartsWith(g.buffer, DataPrefix)
                                  /\ data # DoneMark
                                  /\ parsed.ok
                                  /\ parsed.kind # "e"
                               THEN Append(@, UpstreamImage(parsed.kind))
                               ELSE @]

\* the decoration types selected by the client that reads the stream
StreamTypes == <<"Cake topper", "Favor tags">>

\* the object a payload is for the client: {image, decorationType, index,
\* prompt} or {error, decorationType, index}
ClientJson(kind) ==
    IF kind = "e" THEN ErrorChunk(UpstreamError, StreamTypes[1], 0)
    ELSE LET p == IF kind = "i" THEN 1 ELSE 2
         IN  ImageChunk(Image(StreamTypes[p], p, 0), StreamTypes[p], p - 1,
                        buildDecorationPrompt(StreamTypes[p]))

\* imageMap.set(index, {image, decorationType, prompt})
SetImage(map, c) ==
    MapSet(map, [index |-> c.index, image |-> c.image,
                 decorationType |-> c.decorationType, prompt |-> c.prompt])

\* the body of `for (const line of lines)` of the client, [DONE] noted
ClientLine(c, line, n) ==
    IF Trim(line) = <<>> \/ ~StartsWith(line, DataPrefix) THEN c
    ELSE LET data == SliceFrom(line, Len(DataPrefix))
             parsed == JsonParse(data)
             obj == ClientJson(parsed.kind)
         IN  IF data = DoneMark THEN [c EXCEPT !.done = TRUE]
             ELSE IF ~parsed.ok THEN c
             ELSE IF IsErrorChunk(obj)
             THEN [c EXCEPT !.errorMap =
                       MapSet(@, [index |-> obj.index, error |-> obj.error,
                                  decorationType |-> obj.decorationType])]
             ELSE [c EXCEPT !.imageMap = SetImage(@, obj),
                            !.iterations =
                                UpdateTemp(@, SetImage(c.imageMap, obj), n)]

\* the for-loop of the client: [DONE] ends it
RECURSIVE ClientLines(_, _, _)
ClientLines(c, lines, n) ==
    IF lines = <<>> \/ c.done THEN c
    ELSE ClientLines(ClientLine(c, Head(lines), n), Tail(lines), n)

\* the remaining buffer of the client: an image is kept, anything else is
\* dropped
ClientRemaining(map, buffer) ==
    LET data == SliceFrom(buffer, Len(DataPrefix))
        parsed == JsonParse(data)
    IN  IF /\ Trim(buffer) # <<>>
           /\ StartsWith(buffer, DataPrefix)
           /\ data # DoneMark
           /\ parsed.ok
           /\ IsImageChunk(ClientJson(parsed.kind))
        THEN SetImage(map, ClientJson(parsed.kind))
        ELSE map

\* one turn of `while (true)` of the client with a chunk read
ClientRead(chunk) ==
    LET buf == probe.clBuffer \o chunk
        c == ClientLines([imageMap |-> imageMap, errorMap |-> errorMap,
                          iterations |-> iterations, done |-> FALSE],
                         Lines(buf), Len(selectedDecorations))
    IN  /\ imageMap' = c.imageMap
        /\ errorMap' = c.errorMap
        /\ IF c.done
           THEN FinalizeWith(c.imageMap, c.errorMap, c.iterations,
                             GenericDoneError)
           ELSE /\ iterations' = c.iterations
                /\ UNCHANGED <<saveRequests, clientError, cpc>>

\* reader.read() yields done for the client
ClientEnd ==
    LET map == ClientRemaining(imageMap, probe.clBuffer)
    IN  /\ imageMap' = map
        /\ FinalizeWith(map, errorMap, iterations, GenericEndError)
        /\ UNCHANGED errorMap

ClientStays ==
    UNCHANGED <<imageMap, errorMap, iterations, saveRequests, clientError, cpc>>

ParseFrame ==
    UNCHANGED <<request, apiKey, serverVars, dbVars, selectedDecorations,
                sizeChoice, theme, delivered, detailsPc>>

\* the next k characters of the stream arrive as one chunk at each reader
\* that still reads
DeliverChunk(k) ==
    /\ probe.pos + k <= Len(probe.stream)
    /\ LET chunk == SubSeq(probe.stream, probe.pos + 1, probe.pos + k)
           buf == probe.clBuffer \o chunk
       IN  /\ IF cpc = "streaming" THEN ClientRead(chunk) ELSE ClientStays
           /\ probe' =
                 [probe EXCEPT
                     !.pos = @ + k,
                     !.gw = GatewayRead(@, chunk),
                     !.clBuffer = IF cpc = "streaming" THEN Rest(buf) ELSE @,
                     !.clEnd = IF cpc = "streaming" /\ cpc' # "streaming"
                               THEN "done" ELSE @]
    /\ ParseFrame

\* the stream ends at each reader that still reads
EndOfStream ==
    /\ probe.pos = Len(probe.stream)
    /\ probe.gw.st = "open" \/ cpc = "streaming"
    /\ IF cpc = "streaming" THEN ClientEnd ELSE ClientStays
    /\ probe' = [probe EXCEPT
                    !.gw = GatewayEnd(@),
                    !.clEnd = IF cpc = "streaming" THEN "end" ELSE @]
    /\ ParseFrame

\* the pieces the modelled streams are made of: lines with an image, with
\* an error, [DONE], a blank line, and lines that lack their newline
DataLine(payload) == DataPrefix \o payload

StreamPieces ==
    { DataLine(<<"{", "i", "}", NewLine>>),
      DataLine(<<"{", "j", "}", NewLine>>),
      DataLine(<<"{", "e", "}", NewLine>>),
      DataLine(DoneMark \o <<NewLine>>),
      <<NewLine>>,
      DataLine(<<"{", "j", "}">>),
      DataLine(DoneMark) }

RECURSIVE Flatten(_)
Flatten(pieces) ==
    IF pieces = <<>> THEN <<>> ELSE Head(pieces) \o Flatten(Tail(pieces))

\* a stream that goes on after [DONE]
DoneBetweenImages ==
    DataLine(<<"{", "i", "}", NewLine>>)
    \o DataLine(DoneMark \o <<NewLine>>)
    \o DataLine(<<"{", "j", "}", NewLine>>)

Streams ==
    {Flatten(pieces) : pieces \in SeqsOf(StreamPieces, 1, MaxLines)}
    \cup {DoneBetweenImages}

\* the list of the project while handleStreamingResponse runs
StreamingIterations ==
    <<Iteration(TempId, StreamTypes, <<EmptyImage, EmptyImage>>,
                <<NullType, NullType>>, <<>>),
      ExistingIteration>>

InitParse ==
    /\ request = NoRequest
    /\ apiKey = TRUE
    /\ ServerIdle
    /\ DbIdle
    /\ selectedDecorations = StreamTypes
    /\ sizeChoice = SIZE_OPTIONS[1].id
    /\ theme = <<"p">>
    /\ cpc = "streaming"
    /\ iterations = StreamingIterations
    /\ imageMap = <<>>
    /\ errorMap = <<>>
    /\ delivered = 0
    /\ saveRequests = <<>>
    /\ clientError = NoClientError
    /\ detailsPc = "none"
    /\ probe \in {[stream |-> s, pos |-> 0, gw |-> GatewayOpen,
                   clBuffer |-> <<>>, clEnd |-> "none"] : s \in Streams}

NextParse ==
    \/ \E k \in 1..((MaxLines + 1) * (Len(DataPrefix) + Len(DoneMark) + 1)) :
          DeliverChunk(k)
    \/ EndOfStream
    \/ SaveResponse

SpecParse == InitParse /\ [][NextParse]_vars

----------------------------------------------------------------------------
(* Properties of the SSE line parsers. *)

\* the gateway's run on the whole stream read as one chunk
GatewayWhole(stream) == GatewayEnd(GatewayRead(GatewayOpen, stream))

\* the client's maps on the whole stream read as one chunk, and the
\* generic message of the finalization reached
ClientWhole(stream) ==
    LET c == ClientLines([imageMap |-> <<>>, errorMap |-> <<>>,
                          iterations |-> StreamingIterations, done |-> FALSE],
                         Lines(stream), Len(StreamTypes))
    IN  IF c.done
        THEN [imageMap |-> c.imageMap, errorMap |-> c.errorMap,
              generic |-> GenericDoneError]
        ELSE [imageMap |-> ClientRemaining(c.imageMap, Rest(stream)),
              errorMap |-> c.errorMap, generic |-> GenericEndError]

\* finalImages.filter(img => img) and its companions for a map
FilledImages(map) ==
    SelectSeq(CurrentImages(map, Len(StreamTypes)), LAMBDA img : img # EmptyImage)

FilledTypes(map) ==
    SelectSeq(CurrentTypes(map, Len(StreamTypes)), LAMBDA t : t # NullType)

FilledPrompts(map) ==
    SelectSeq(CurrentPrompts(map, Len(StreamTypes)), LAMBDA q : q # NoPrompt)

(* C17: however the stream is cut into read chunks, the images the        *)
(* gateway has emitted when it stops, and the per-index images and the     *)
(* outcome of the client (the save request or the error thrown), are those *)
(* of the run that reads the whole stream as one chunk.                    *)
C17_ChunkingInsensitive ==
    /\ probe.gw.st # "open" =>
          /\ probe.gw.out = GatewayWhole(probe.stream).out
          /\ probe.gw.st = GatewayWhole(probe.stream).st
    /\ cpc # "streaming" =>
          LET whole == ClientWhole(probe.stream)
          IN  /\ CurrentImages(imageMap, Len(StreamTypes))
                    = CurrentImages(whole.imageMap, Len(StreamTypes))
              /\ IF FilledImages(whole.imageMap) = <<>>
                 THEN /\ saveRequests = <<>>
                      /\ cpc = "failed"
                      /\ ~TempPresent
                      /\ clientError = IF whole.errorMap # <<>>
                                       THEN JoinErrors(whole.errorMap)
                                       ELSE ErrorMessage(whole.generic)
                 ELSE saveRequests =
                          <<SaveBody(FilledImages(whole.imageMap),
                                     FilledTypes(whole.imageMap),
                                     FilledPrompts(whole.imageMap))>>

\* both readers have taken the first image from a chunk that ended inside
\* the next `data:` line, whose beginning they keep
C17_Witness ==
    /\ probe.gw.st = "open"
    /\ probe.gw.out = <<UpstreamImage("i")>>
    /\ probe.gw.buffer = DataPrefix \o <<"{">>
    /\ cpc = "streaming"
    /\ MapHas(imageMap, 0)
    /\ probe.clBuffer = DataPrefix \o <<"{">>

\* the index of the first complete line `data: [DONE]` of a stream, 0
\* without one
FirstDoneLine(stream) ==
    LET lines == Lines(stream)
        at == {k \in DOMAIN lines : lines[k] = DataLine(DoneMark)}
    IN  IF at = {} THEN 0 ELSE CHOOSE k \in at : \A j \in at : k <= j

\* the images of the `data:` lines of a stream before its k-th line
ImagesBeforeLine(stream, k) ==
    LET lines == Lines(stream)
        payload(j) == JsonParse(SliceFrom(lines[j], Len(DataPrefix)))
        carrying == SelectSeq([j \in 1..(k - 1) |-> j],
                              LAMBDA j : /\ StartsWith(lines[j], DataPrefix)
                                         /\ payload(j).ok
                                         /\ payload(j).kind # "e")
    IN  [i \in DOMAIN carrying |-> UpstreamImage(payload(carrying[i]).kind)]

\* the first line data: [DONE] has arrived whole at the gateway, and no
\* line before it carried an error
DoneRead ==
    LET lines == Lines(probe.stream)
        d == FirstDoneLine(probe.stream)
    IN  /\ d > 0
        /\ probe.pos >= NewLines(probe.stream)[d]
        /\ \A j \in 1..(d - 1) :
              ~(/\ StartsWith(lines[j], DataPrefix)
                /\ JsonParse(SliceFrom(lines[j], Len(DataPrefix))).kind = "e")

C19_EndFinalizesLikeDone ==
    (probe.clEnd = "end" /\ cpc # "saving") =>
        /\ (Rest(probe.stream) = DataLine(<<"{", "j", "}">>)) =>
              MapHas(imageMap, 1)
        /\ IF FilledImages(imageMap) # <<>>
           THEN /\ Len(saveRequests) = 1
                /\ saveRequests[1].images = FilledImages(imageMap)
                /\ cpc = "done"
                /\ ~TempPresent
                /\ \E i \in DOMAIN iterations :
                      /\ iterations[i].id = SavedId
                      /\ iterations[i].images = FilledImages(imageMap)
           ELSE /\ cpc = "failed"
                /\ ~TempPresent
                /\ saveRequests = <<>>

----------------------------------------------------------------------------
(* Properties of the client and the server together, continued. *)

(* C21: every save request the client sends after a generation, whatever   *)
(* the selection and the canvas format chosen in the UI, passes the         *)
(* validation of the iteration route and is answered 200.                  *)
C21_UiGenerationSavable ==
    \A i \in DOMAIN saveRequests :
        IterationsPostStatus(ActiveProjectId, saveRequests[i]) = 200

----------------------------------------------------------------------------
(* Properties of handleStreamingGeneration, continued. *)

\* the callback of position p calls controller.enqueue on the closed
\* controller: the call throws and the callback rejects
EnqueueOnClosed(p) ==
    /\ controllerClosed
    /\ task[p].st \in {"fetching", "reading"}
    /\ task'[p].st = "rejected"

(* C22: no callback of a streaming request calls controller.enqueue once   *)
(* the controller has been closed, in any interleaving of the callbacks.   *)
C22_NoEnqueueAfterClose ==
    [][\A p \in Positions : ~EnqueueOnClosed(p)]_vars

----------------------------------------------------------------------------
(* Properties of handleGenerate. *)

(* C24: once handleGenerate has returned, with an error or with the saved  *)
(* iteration, no temporary iteration is left in the project's list.        *)
C24_NoTempAfterReturn ==
    cpc \in {"failed", "done"} => ~TempPresent

----------------------------------------------------------------------------
(* A generation while the details of the active project are being fetched *)
(* (the effect on activeProjectId). *)

\* the iterations GET /api/projects/{id} returns for the active project:
\* those saved on the server, the newest first
ServerIterations ==
    IF cpc = "done"
    THEN LET body == saveRequests[Len(saveRequests)]
         IN  <<Iteration(SavedId, selectedDecorations, body.images,
                         body.imageDecorationTypes, body.prompt),
               ExistingIteration>>
    ELSE <<ExistingIteration>>

\* fetchProjectDetails after `await res.json()`: setProjects puts
\* fullProject in the place of the active project
ProjectDetailsResponse ==
    /\ detailsPc = "pending"
    /\ detailsPc' = "done"
    /\ iterations' = ServerIterations
    /\ UNCHANGED <<request, selectedDecorations, sizeChoice, theme, cpc,
                   imageMap, errorMap, delivered, saveRequests, clientError>>
    /\ UNCHANGED <<apiKey, serverVars, dbVars, probe>>

InitRace ==
    /\ request = NoRequest
    /\ apiKey \in BOOLEAN
    /\ ServerIdle
    /\ DbIdle
    /\ selectedDecorations \in UiSelections
    /\ sizeChoice \in {SIZE_OPTIONS[i].id : i \in DOMAIN SIZE_OPTIONS}
    /\ theme \in UiThemes
    /\ cpc = "idle"
    /\ iterations = <<ExistingIteration>>
    /\ imageMap = <<>>
    /\ errorMap = <<>>
    /\ delivered = 0
    /\ saveRequests = <<>>
    /\ clientError = NoClientError
    /\ detailsPc = "pending"
    /\ probe = <<>>

NextRace ==
    \/ Next
    \/ ProjectDetailsResponse

SpecRace == InitRace /\ [][NextRace]_vars

(* C23: while a generation is in flight the temporary iteration is in the *)
(* project's list, also when the project details arrive in between, and   *)
(* once the save has succeeded the saved iteration is in the list.         *)
C23_GenerationSurvivesFetch ==
    /\ cpc \in {"fetching", "streaming", "saving"} => TempPresent
    /\ cpc = "done" => \E i \in DOMAIN iterations : iterations[i].id = SavedId

----------------------------------------------------------------------------
(* Properties of the project and iteration routes, continued. *)

IterationDeleteRequest(id, iterationId) ==
    ApiRequest(id, iterationId, Undefined, NoIterationBody)

\* the iteration row with this id is a row of this project
BelongsTo(iterationId, id) ==
    \E i \in DOMAIN iterationsTable :
        /\ iterationsTable[i].id = iterationId.v
        /\ iterationsTable[i].projectId = id.v

(* C25: an iteration delete whose iteration is not one of the project     *)
(* named in the path leaves the three tables as they were; one whose       *)
(* iteration is of that project removes that iteration row and its image   *)
(* rows and nothing else.                                                  *)
C25_DeleteOnlyInProject ==
    [][\A id, iterationId \in ApiIds :
          IterationDelete(IterationDeleteRequest(id, iterationId)) =>
              IF BelongsTo(iterationId, id)
              THEN /\ projectsTable' = projectsTable
                   /\ iterationsTable' =
                         SelectSeq(iterationsTable,
                                   LAMBDA r : r.id # iterationId.v)
                   /\ imagesTable' =
                         SelectSeq(imagesTable,
                                   LAMBDA r : r.iterationId # iterationId.v)
              ELSE UNCHANGED <<projectsTable, iterationsTable, imagesTable>>]_vars

(* C26: a request to a project or iteration route that is answered with   *)
(* a status outside 200..299 leaves the projects, iterations and images    *)
(* tables as they were; an iteration create that fails inserts nothing.    *)
C26_FailureChangesNothing ==
    [][reply'.status \notin 200..299 =>
          UNCHANGED <<projectsTable, iterationsTable, imagesTable>>]_vars

\* an iteration create for an existing project has been answered 500 and
\* the project has no iteration
C26_Witness ==
    /\ reply.endpoint = "iterations.POST"
    /\ reply.status = 500
    /\ projectsTable # <<>>
    /\ iterationsTable = <<>>
    /\ imagesTable = <<>>

====
